---------------------------- MODULE Spec2Model ----------------------------
(***************************************************************************)
(* A model of the conversion framework blitz-frost/conv:                   *)
(*   - the numeric lattice (numeric/numeric.go): Descriptors, the ratings  *)
(*     table, RateConversion and Convert;                                  *)
(*   - the structural descriptor (base.go): baseOf, asTypeRec, isConcrete; *)
(*   - the memoizing Library (Library.Get);                                *)
(*   - the resolution engine (Scheme/Inverse: Load, Build, dispatch).      *)
(* Each component has its own specification (SpecNum, SpecBase, SpecLib,   *)
(* SpecEng, SpecRace); the variables of the other components stay parked.  *)
(***************************************************************************)
EXTENDS Integers, Sequences, FiniteSets, TLC

(***************************************************************************)
(* State.                                                                  *)
(*   cv*   one call of numeric.Convert and the conversion back;            *)
(*   bs*   one base: the type, its base, the decoded type, its base;       *)
(*   m, mux, calls, lib*   a Library and the goroutines calling Get;        *)
(*   dir .. last   a Scheme (dir = "scheme") or an Inverse (dir =          *)
(*         "inverse"): its fixed type, its five maps, the types of the     *)
(*         functions loaded so far, whether Build has run, and the last    *)
(*         call of the built function; seen remembers, for each            *)
(*         counter-type, what the first call with it did, and loadErr is   *)
(*         what the last Load returned;                                    *)
(*   gor, walks, crashed   goroutines calling the built function at the    *)
(*         same time: where each one is in the function, how many times    *)
(*         the registries were searched for each type, and whether the     *)
(*         runtime has stopped the program;                                *)
(*   kBasic .. kLast   a Scheme of conv.go (basic keyed by Kind), the      *)
(*         caller's function variables and the last call made;             *)
(*   scheme, bound, sLast   a Scheme[T] (a list of builders), the          *)
(*         Conversion or Inversion made from it, and the last call;        *)
(*   checked   the last call of Check;                                     *)
(*   hasher, hashMux, hashPc, hashArg, hashOut, hashSeen, hashCalls        *)
(*         the package's maphash.Hash, its mutex and the goroutines that   *)
(*         call base.hash.                                                 *)
(***************************************************************************)
VARIABLES cvDst, cvSrc, cvOut, cvBack, cvPc,
          bsType, bsTail, bsBase, bsDec, bsRe, bsPc,
          m, mux, calls, libPc, libArg, libO, libRet, libSlow, libStack,
          dir, fixedType, cache, specific, generic, basic, numeric,
          loads, phase, last, seen, loadErr,
          gor, walks, crashed,
          kBasic, kSpecific, rec, fvars, kLast,
          scheme, bound, sLast, checked,
          hasher, hashMux, hashPc, hashArg, hashOut, hashSeen, hashCalls

numVars == <<cvDst, cvSrc, cvOut, cvBack, cvPc>>

baseVars == <<bsType, bsTail, bsBase, bsDec, bsRe, bsPc>>

libVars == <<m, mux, calls, libPc, libArg, libO, libRet, libSlow, libStack>>

engVars ==
  <<dir, fixedType, cache, specific, generic, basic, numeric, loads, phase, last, seen, loadErr>>

raceVars == <<gor, walks, crashed>>

oldVars == <<kBasic, kSpecific, rec, fvars, kLast>>

schemeVars == <<scheme, bound, sLast, checked>>

hashVars == <<hasher, hashMux, hashPc, hashArg, hashOut, hashSeen, hashCalls>>

vars == <<numVars, baseVars, libVars, engVars, raceVars, oldVars, schemeVars, hashVars>>

\* The variables of the other components, which a step leaves alone.
notNum == <<baseVars, libVars, engVars, raceVars, oldVars, schemeVars, hashVars>>

notBase == <<numVars, libVars, engVars, raceVars, oldVars, schemeVars, hashVars>>

notLib == <<numVars, baseVars, engVars, raceVars, oldVars, schemeVars, hashVars>>

notEng == <<numVars, baseVars, libVars, raceVars, oldVars, schemeVars, hashVars>>

notRace == <<numVars, baseVars, libVars, oldVars, schemeVars, hashVars>>

notOld == <<numVars, baseVars, libVars, engVars, raceVars, schemeVars, hashVars>>

notScheme == <<numVars, baseVars, libVars, engVars, raceVars, oldVars, hashVars>>

notHash == <<numVars, baseVars, libVars, engVars, raceVars, oldVars, schemeVars>>

(***************************************************************************)
(* reflect.Kind, with the numbering of the Go reflect package.  baseOf     *)
(* writes byte(k), so the numbers matter.                                  *)
(***************************************************************************)
K == [Invalid |-> 0, Bool |-> 1, Int |-> 2, Int8 |-> 3, Int16 |-> 4,
      Int32 |-> 5, Int64 |-> 6, Uint |-> 7, Uint8 |-> 8, Uint16 |-> 9,
      Uint32 |-> 10, Uint64 |-> 11, Uintptr |-> 12, Float32 |-> 13,
      Float64 |-> 14, Complex64 |-> 15, Complex128 |-> 16, Array |-> 17,
      Chan |-> 18, Func |-> 19, Interface |-> 20, Map |-> 21,
      Pointer |-> 22, Slice |-> 23, String |-> 24, Struct |-> 25,
      UnsafePointer |-> 26]

\* The keys of numeric.Types.
NumericKinds == {K.Int8, K.Int16, K.Int32, K.Int64, K.Int,
                 K.Uint8, K.Uint16, K.Uint32, K.Uint64, K.Uint,
                 K.Float32, K.Float64, K.Complex64, K.Complex128}

\* The keys of simpleTypes (the numeric kinds, bool, string, unsafe.Pointer).
SimpleKinds == NumericKinds \cup {K.Bool, K.String, K.UnsafePointer}

\* The int size in bits of the host.
arch == 64

kindInt == IF arch = 64 THEN K.Int64 ELSE K.Int32

kindUint == IF arch = 64 THEN K.Uint64 ELSE K.Uint32

Alias(k) == IF k = K.Int THEN kindInt ELSE IF k = K.Uint THEN kindUint ELSE k

Nature == [Uint |-> 0, Int |-> 1, Float |-> 2, Complex |-> 3]

Desc(s, n) == [Size |-> s, Nature |-> n]

\* Descriptors, after init has added int and uint.
Descriptors ==
  [k \in NumericKinds |->
     CASE k = K.Uint8      -> Desc(1, Nature.Uint)
       [] k = K.Uint16     -> Desc(2, Nature.Uint)
       [] k = K.Uint32     -> Desc(4, Nature.Uint)
       [] k = K.Uint64     -> Desc(8, Nature.Uint)
       [] k = K.Int8       -> Desc(1, Nature.Int)
       [] k = K.Int16      -> Desc(2, Nature.Int)
       [] k = K.Int32      -> Desc(4, Nature.Int)
       [] k = K.Int64      -> Desc(8, Nature.Int)
       [] k = K.Float32    -> Desc(4, Nature.Float)
       [] k = K.Float64    -> Desc(8, Nature.Float)
       [] k = K.Complex64  -> Desc(8, Nature.Complex)
       [] k = K.Complex128 -> Desc(16, Nature.Complex)
       [] k = K.Uint       -> Desc(arch \div 8, Nature.Uint)
       [] k = K.Int        -> Desc(arch \div 8, Nature.Int)]

\* nats[n]: the sizes that occur with nature n.
nats(n) == {Descriptors[k].Size : k \in {kk \in NumericKinds : Descriptors[kk].Nature = n}}

\* Number of sizes above "size" in the natures lo .. hi-1.
RECURSIVE skipped(_, _, _)
skipped(lo, hi, size) ==
  IF lo >= hi THEN 0
  ELSE Cardinality({s \in nats(lo) : s > size}) + skipped(lo + 1, hi, size)

\* The counterpart of halving that halves a complex size for float sources too.
halvingBelowComplex(d0, d1) ==
  IF d0.Nature = Nature.Complex /\ d1.Nature < Nature.Complex THEN 2 ELSE 1

\* complex only counts as half size for integer conversions
halving(d0, d1) == IF d0.Nature = Nature.Complex /\ d1.Nature < Nature.Float THEN 2 ELSE 1

\* The counterpart of impossible that compares the sizes only.
impossibleBySize(d0, d1) == d0.Size \div halving(d0, d1) < d1.Size

\* The test of init that marks a pair as impossible.
impossible(d0, d1) ==
  LET c == halving(d0, d1) IN
    \/ d0.Nature < d1.Nature
    \/ (d0.Nature = d1.Nature /\ d0.Size \div c < d1.Size)
    \/ (d0.Nature > d1.Nature /\ d0.Size \div c <= d1.Size)

\* One entry of the ratings table as init computes it.
rate(k0, k1) ==
  LET d0 == Descriptors[k0]
      d1 == Descriptors[k1]
      c  == halving(d0, d1)
  IN IF impossible(d0, d1) THEN -1
     ELSE skipped(d1.Nature, d0.Nature, d1.Size)
          + Cardinality({s \in nats(d0.Nature) : s > d1.Size /\ s <= d0.Size \div c})

ratings == [k0 \in NumericKinds |-> [k1 \in NumericKinds |-> rate(k0, k1)]]

\* A missing key of a Go map reads as the zero value.
RateConversion(dst, src) ==
  IF dst \in NumericKinds /\ src \in NumericKinds THEN ratings[dst][src] ELSE 0


(***************************************************************************)
(* Numeric values.  A real number is zero or sign * m, where the binary    *)
(* digits of m that are 1 lie between bit lo and bit hi (both are 1).      *)
(* Whether a kind can hold a number depends on sign, hi and lo only, so    *)
(* 2^53 or 2^63 need not be written as integers.  A value of a numeric     *)
(* kind is [kind, re, im]; im is Zero unless the kind is complex.          *)
(***************************************************************************)
Zero == [z |-> TRUE, neg |-> FALSE, hi |-> 0, lo |-> 0]

Mag(neg, hi, lo) == [z |-> FALSE, neg |-> neg, hi |-> hi, lo |-> lo]

Max(a, b) == IF a >= b THEN a ELSE b

Min(a, b) == IF a <= b THEN a ELSE b

\* IEEE 754 binary32 / binary64: significand bits, largest exponent, lowest bit.
FloatFormat(size) ==
  IF size = 4 THEN [p |-> 24, emax |-> 127, emin |-> -149]
  ELSE [p |-> 53, emax |-> 1023, emin |-> -1074]

FitsUint(n, r) == r.z \/ (~r.neg /\ r.lo >= 0 /\ r.hi <= n - 1)

FitsInt(n, r) ==
  r.z \/ (r.lo >= 0 /\ (r.hi <= n - 2 \/ (r.neg /\ r.hi = n - 1 /\ r.lo = n - 1)))

FitsFloat(size, r) ==
  LET f == FloatFormat(size) IN
    r.z \/ (r.hi - r.lo + 1 <= f.p /\ r.hi <= f.emax /\ r.lo >= f.emin)

\* Whether the real r is a value of the non-complex kind k.
FitsReal(k, r) ==
  LET d == Descriptors[k] IN
    CASE d.Nature = Nature.Uint  -> FitsUint(8 * d.Size, r)
      [] d.Nature = Nature.Int   -> FitsInt(8 * d.Size, r)
      [] d.Nature = Nature.Float -> FitsFloat(d.Size, r)
      [] OTHER                   -> FALSE

IsComplex(k) == k \in {K.Complex64, K.Complex128}

\* The float kind of the components of a complex kind.
Component(k) == IF k = K.Complex64 THEN K.Float32 ELSE K.Float64

NumVal(k, re, im) == [kind |-> k, re |-> re, im |-> im]

\* Whether the mathematical value (re, im) is a value of kind k.
Representable(k, re, im) ==
  IF IsComplex(k) THEN FitsReal(Component(k), re) /\ FitsReal(Component(k), im)
  ELSE im = Zero /\ FitsReal(k, re)

\* Go's conversion of a real to an integer kind of n bits: the fraction is
\* dropped, then the low n bits are kept (two's complement).
ToInteger(signed, n, r) ==
  LET lo == Max(r.lo, 0) IN
    IF r.z \/ r.hi < 0 \/ lo > n - 1 THEN Zero
    ELSE LET t == Mag(r.neg, r.hi, lo) IN
      IF signed /\ FitsInt(n, t) THEN t
      ELSE IF ~signed /\ FitsUint(n, t) THEN t
      ELSE IF signed THEN Mag(~r.neg, Min(r.hi, n - 2), Min(lo, n - 2))
      ELSE Mag(FALSE, n - 1, lo)

\* Go's conversion of a real to a float kind: rounded to the significand,
\* overflowing to infinity (written as the bit above emax).
ToFloat(size, r) ==
  LET f == FloatFormat(size) IN
    IF r.z \/ r.hi < f.emin THEN Zero
    ELSE IF r.hi > f.emax THEN Mag(r.neg, f.emax + 1, f.emax + 1)
    ELSE Mag(r.neg, r.hi, Max(r.lo, Max(f.emin, r.hi - f.p + 1)))

ToReal(k, r) ==
  LET d == Descriptors[k] IN
    CASE d.Nature = Nature.Uint  -> ToInteger(FALSE, 8 * d.Size, r)
      [] d.Nature = Nature.Int   -> ToInteger(TRUE, 8 * d.Size, r)
      [] OTHER                   -> ToFloat(d.Size, r)

\* reflect.Value.Convert between numeric kinds: [ok, v]; ok = FALSE is the
\* panic of reflect for a complex operand and a non-complex type or the reverse.
reflectConvert(v, k) ==
  IF IsComplex(v.kind) /\ IsComplex(k)
    THEN [ok |-> TRUE,
          v |-> NumVal(k, ToFloat(Descriptors[k].Size \div 2, v.re),
                          ToFloat(Descriptors[k].Size \div 2, v.im))]
  ELSE IF IsComplex(v.kind) \/ IsComplex(k)
    THEN [ok |-> FALSE, v |-> v]
  ELSE [ok |-> TRUE, v |-> NumVal(k, ToReal(k, v.re), Zero)]

\* complex(f, 0) for a float32 or float64 f.
complexOf(f) ==
  NumVal(IF f.kind = K.Float32 THEN K.Complex64 ELSE K.Complex128, f.re, Zero)

Outcome(err, panic, val) == [err |-> err, panic |-> panic, val |-> val]

\* The promotion of the source before the final conversion: [ok, v].
promote(dstKind, srcVal) ==
  IF dstKind = K.Complex128 /\ srcVal.kind # K.Complex64
    THEN LET f == reflectConvert(srcVal, K.Float64) IN
           IF f.ok THEN [ok |-> TRUE, v |-> complexOf(f.v)] ELSE f
  ELSE IF dstKind = K.Complex64
    THEN LET f == reflectConvert(srcVal, K.Float32) IN
           IF f.ok THEN [ok |-> TRUE, v |-> complexOf(f.v)] ELSE f
  ELSE [ok |-> TRUE, v |-> srcVal]

\* The counterpart of Convert that does not look at the rating.
ConvertUnrated(dst, src) ==
  IF dst.tag = "nil" \/ src.tag = "nil" THEN Outcome("nil input", FALSE, dst.val)
  ELSE IF dst.tag # "ptr" THEN Outcome("non-pointer destination", FALSE, dst.val)
  ELSE IF dst.kind \notin NumericKinds
    THEN Outcome("non-numeric destination", FALSE, dst.val)
  ELSE IF src.kind \notin NumericKinds
    THEN Outcome("non-numeric source", FALSE, dst.val)
  ELSE LET p == promote(dst.kind, src.val) IN
    IF ~p.ok THEN Outcome("", TRUE, dst.val)
    ELSE LET c == reflectConvert(p.v, dst.kind) IN
      IF ~c.ok THEN Outcome("", TRUE, dst.val)
      ELSE Outcome("", FALSE, c.v)

\* numeric.Convert(dst, src).  dst is [tag, kind, val] with tag "nil", "value"
\* (not a pointer) or "ptr" (val is what it points to); src is [tag, kind, val]
\* with tag "nil" or "value".  The outcome holds the error text ("" for nil),
\* whether the call panicked, and *dst after the call.
Convert(dst, src) ==
  IF dst.tag = "nil" \/ src.tag = "nil" THEN Outcome("nil input", FALSE, dst.val)
  ELSE IF dst.tag # "ptr" THEN Outcome("non-pointer destination", FALSE, dst.val)
  ELSE IF dst.kind \notin NumericKinds
    THEN Outcome("non-numeric destination", FALSE, dst.val)
  ELSE IF src.kind \notin NumericKinds
    THEN Outcome("non-numeric source", FALSE, dst.val)
  ELSE IF RateConversion(dst.kind, src.kind) = -1
    THEN Outcome("invalid conversion", FALSE, dst.val)
  ELSE LET p == promote(dst.kind, src.val) IN
    IF ~p.ok THEN Outcome("", TRUE, dst.val)
    ELSE LET c == reflectConvert(p.v, dst.kind) IN
      IF ~c.ok THEN Outcome("", TRUE, dst.val)
      ELSE Outcome("", FALSE, c.v)

(***************************************************************************)
(* Calls of numeric.Convert: a destination and a source are chosen, Convert *)
(* runs, and its result is converted back into the source's kind.          *)
(***************************************************************************)
\* Bit positions used to build the sample numbers: the edges of every
\* integer width and of both float formats.
Exps == {-1074, -149, -1, 0, 7, 8, 15, 16, 23, 24, 31, 32, 52, 53, 63, 64, 127, 1023}

Reals == {Zero} \cup UNION {{Mag(n, h, l) : n \in BOOLEAN, l \in {e \in Exps : e <= 0 /\ e <= h}} : h \in Exps}
               \cup {Mag(n, h, h - w) : n \in BOOLEAN, h \in Exps, w \in {0, 1, 23, 24, 52, 53}}

One == Mag(FALSE, 0, 0)

\* The sample values of numeric kind k.
ValuesOf(k) ==
  IF IsComplex(k)
    THEN {NumVal(k, re, im) : re \in {r \in Reals : FitsReal(Component(k), r)},
                              im \in {Zero, One, Mag(TRUE, 0, -23)}}
    ELSE {NumVal(k, r, Zero) : r \in {x \in Reals : FitsReal(k, x)}}

NoVal == NumVal(K.Invalid, Zero, Zero)

Arg(tag, kind, val) == [tag |-> tag, kind |-> kind, val |-> val]

NoOutcome == Outcome("", FALSE, NoVal)

\* Destinations: nil, a value that is no pointer, a pointer to a string, and
\* a pointer to each numeric kind, holding 0 or 1.
DstArgs ==
  {Arg("nil", K.Invalid, NoVal), Arg("value", K.Int, NumVal(K.Int, One, Zero)),
   Arg("ptr", K.String, NumVal(K.String, Zero, Zero))}
  \cup {Arg("ptr", k, NumVal(k, r, Zero)) : k \in NumericKinds, r \in {Zero, One}}

SrcArgs ==
  {Arg("nil", K.Invalid, NoVal), Arg("value", K.String, NumVal(K.String, Zero, Zero))}
  \cup UNION {{Arg("value", k, v) : v \in ValuesOf(k)} : k \in NumericKinds}

InitNum ==
  /\ cvDst \in DstArgs
  /\ cvSrc \in SrcArgs
  /\ cvOut = NoOutcome
  /\ cvBack = NoOutcome
  /\ cvPc = "start"

ParkNum ==
  /\ cvDst = Arg("nil", K.Invalid, NoVal)
  /\ cvSrc = Arg("nil", K.Invalid, NoVal)
  /\ cvOut = NoOutcome
  /\ cvBack = NoOutcome
  /\ cvPc = "off"

\* err := numeric.Convert(dst, src)
ConvertCall ==
  /\ cvPc = "start"
  /\ cvOut' = Convert(cvDst, cvSrc)
  /\ cvPc' = "converted"
  /\ UNCHANGED <<notNum, cvDst, cvSrc, cvBack>>

\* After a successful Convert: var back S; err := numeric.Convert(&back, *dst)
ConvertBack ==
  /\ cvPc = "converted"
  /\ cvOut.err = "" /\ ~cvOut.panic
  /\ cvBack' = Convert(Arg("ptr", cvSrc.kind, NumVal(cvSrc.kind, Zero, Zero)),
                       Arg("value", cvDst.kind, cvOut.val))
  /\ cvPc' = "back"
  /\ UNCHANGED <<notNum, cvDst, cvSrc, cvOut>>

(***************************************************************************)
(* Types (reflect.Type).  A type is [k, nm, n, v, sub]:                    *)
(*   k   its kind;                                                         *)
(*   nm  "" for a type without package path (built-in or undefined),       *)
(*       else the name of a defined type;                                  *)
(*   n   the array length, the channel direction or the number of inputs;  *)
(*   v   1 for a variadic function, else 0;                                *)
(*   sub the element, <<key, element>>, the fields, or inputs \o outputs.  *)
(***************************************************************************)
Ty(k, nm, n, v, sub) == [k |-> k, nm |-> nm, n |-> n, v |-> v, sub |-> sub]

Simple(k) == Ty(k, "", 0, 0, <<>>)

\* The nil reflect.Type.
NilType == Ty(K.Invalid, "nil", 0, 0, <<>>)

ArrayOf(n, e) == Ty(K.Array, "", n, 0, <<e>>)

SliceOf(e) == Ty(K.Slice, "", 0, 0, <<e>>)

PtrTo(e) == Ty(K.Pointer, "", 0, 0, <<e>>)

MapOf(key, e) == Ty(K.Map, "", 0, 0, <<key, e>>)

StructOf(fields) == Ty(K.Struct, "", 0, 0, fields)

ChanOf(chanDir, e) == Ty(K.Chan, "", chanDir, 0, <<e>>)

FuncOf(in, out, variadic) == Ty(K.Func, "", Len(in), IF variadic THEN 1 ELSE 0, in \o out)

\* type nm t
Defined(nm, t) == [t EXCEPT !.nm = nm]

\* byte(n)
Byte(n) == n % 256

RECURSIVE baseOf(_)
RECURSIVE baseOfAll(_)
\* The counterpart of baseOfAll that stops after the first type.
baseOfFirst(ts) == IF ts = <<>> THEN <<>> ELSE baseOf(Head(ts))

\* The concatenated bases of a sequence of types.
baseOfAll(ts) == IF ts = <<>> THEN <<>> ELSE baseOf(Head(ts)) \o baseOfAll(Tail(ts))

baseOf(t) ==
  LET k == Alias(t.k) IN
    IF k \in SimpleKinds THEN <<Byte(k)>>
    ELSE CASE k = K.Array   -> <<Byte(k), Byte(t.n)>> \o baseOf(t.sub[1])
           [] k = K.Slice   -> <<Byte(k)>> \o baseOf(t.sub[1])
           [] k = K.Pointer -> <<Byte(k)>> \o baseOf(t.sub[1])
           [] k = K.Map     -> <<Byte(k)>> \o baseOf(t.sub[1]) \o baseOf(t.sub[2])
           [] k = K.Struct  -> <<Byte(k), Byte(Len(t.sub))>> \o baseOfAll(t.sub)
           [] k = K.Chan    -> <<Byte(k), Byte(t.n)>> \o baseOf(t.sub[1])
           [] k = K.Func    -> <<Byte(k), Byte(t.n), Byte(Len(t.sub) - t.n), t.v>>
                               \o baseOfAll(t.sub)
           [] OTHER         -> <<Byte(k)>>

\* x[i:] of a Go slice; the caller checks i <= len(x).
From(x, i) == SubSeq(x, i + 1, Len(x))

\* A result of asTypeRec: the type, the bytes consumed, and whether it panicked.
Dec(t, c) == [panic |-> FALSE, t |-> t, c |-> c]

DecPanic == [panic |-> TRUE, t |-> NilType, c |-> 0]

\* Kinds that may be the key of a map (reflect.MapOf panics on the others).
Comparable(t) == t.k \notin {K.Slice, K.Map, K.Func, K.Invalid}

RECURSIVE asTypeRec(_)
RECURSIVE decodeList(_, _, _, _)
RECURSIVE decodeFields(_, _, _, _)

\* The loops of the Func case: count types are read from x starting at index i
\* and appended to acc.  The result's t holds the sequence, c the next index.
decodeList(x, i, count, acc) ==
  IF count = 0 THEN Dec(acc, i)
  ELSE IF i > Len(x) THEN DecPanic
  ELSE LET r == asTypeRec(From(x, i)) IN
    IF r.panic THEN DecPanic
    ELSE decodeList(x, i + r.c, count - 1, Append(acc, r.t))

\* The loop of the Struct case, as written: the index i starts at 1, each
\* field is read from x[i:] and stored in fields[i].  fields maps the indices
\* 0 .. n-1 that were stored to their types.
decodeFields(x, i, left, fields) ==
  IF left = 0 THEN Dec(fields, i)
  ELSE IF i > Len(x) THEN DecPanic
  ELSE LET r == asTypeRec(From(x, i)) IN
    IF r.panic \/ i >= x[2] THEN DecPanic
    ELSE decodeFields(x, i + r.c, left - 1,
                      [j \in DOMAIN fields \cup {i} |-> IF j = i THEN r.t ELSE fields[j]])

asTypeRec(x) ==
  IF Len(x) = 0 THEN DecPanic
  ELSE LET k == x[1] IN
    IF k \in SimpleKinds THEN Dec(Simple(k), 1)
    ELSE CASE k = K.Array ->
                IF Len(x) < 2 THEN DecPanic
                ELSE LET e == asTypeRec(From(x, 2)) IN
                  IF e.panic \/ e.t = NilType THEN DecPanic
                  ELSE Dec(ArrayOf(x[2], e.t), 2 + e.c)
           [] k = K.Chan ->
                IF Len(x) < 2 THEN DecPanic
                ELSE LET e == asTypeRec(From(x, 2)) IN
                  IF e.panic \/ e.t = NilType \/ x[2] \notin 1..3 THEN DecPanic
                  ELSE Dec(ChanOf(x[2], e.t), 2 + e.c)
           [] k = K.Func ->
                IF Len(x) < 4 THEN DecPanic
                ELSE LET in == decodeList(x, 4, x[2], <<>>) IN
                  IF in.panic THEN DecPanic
                  ELSE LET out == decodeList(x, in.c, x[3], <<>>) IN
                    IF out.panic THEN DecPanic
                    ELSE IF \E j \in 1..Len(in.t \o out.t) : (in.t \o out.t)[j] = NilType
                      THEN DecPanic
                    ELSE IF x[4] = 1 /\ (in.t = <<>> \/ in.t[Len(in.t)].k # K.Slice)
                      THEN DecPanic
                    ELSE Dec(FuncOf(in.t, out.t, x[4] = 1), out.c)
           [] k = K.Map ->
                IF Len(x) < 1 THEN DecPanic
                ELSE LET key == asTypeRec(From(x, 1)) IN
                  IF key.panic \/ 1 + key.c > Len(x) THEN DecPanic
                  ELSE LET e == asTypeRec(From(x, 1 + key.c)) IN
                    IF e.panic \/ e.t = NilType \/ ~Comparable(key.t) THEN DecPanic
                    ELSE Dec(MapOf(key.t, e.t), 1 + key.c + e.c)
           [] k = K.Slice ->
                LET e == asTypeRec(From(x, 1)) IN
                  IF e.panic \/ e.t = NilType THEN DecPanic
                  ELSE Dec(SliceOf(e.t), 1 + e.c)
           [] k = K.Struct ->
                IF Len(x) < 2 THEN DecPanic
                ELSE LET f == decodeFields(x, 1, x[2], <<>>) IN
                  IF f.panic THEN DecPanic
                  \* reflect.StructOf panics on a field without name or type
                  ELSE IF \E j \in 0..(x[2] - 1) :
                            j \notin DOMAIN f.t \/ f.t[j] = NilType
                    THEN DecPanic
                  ELSE Dec(StructOf([j \in 1..x[2] |-> f.t[j - 1]]), f.c)
           [] OTHER -> Dec(NilType, 0)

\* asType returns the type corresponding to this base
asType(x) == asTypeRec(x)

(***************************************************************************)
(* The types the model ranges over: simple types, defined simple types,    *)
(* and composites of them up to two levels.                                *)
(***************************************************************************)
\* Largest number of struct fields in the sample types.
MaxFields == 2

\* Largest number of inputs, and of outputs, of the sample function types.
MaxParams == 1

\* Lengths of the sample array types.
ArrayLens == {0, 2, 20, 256}

\* The sequences over S of length at most n.
SeqsUpTo(S, n) == UNION {[1..len -> S] : len \in 0..n}

LeafTypes ==
  {Simple(k) : k \in {K.Bool, K.Int, K.Int64, K.Uint8, K.Float64, K.String}}
  \cup {Defined("A", Simple(K.Int64))}

\* The composite types whose parts are taken from S (function parameters from P).
Composites(S, P) ==
  {ArrayOf(n, e) : n \in ArrayLens, e \in S}
  \cup {SliceOf(e) : e \in S}
  \cup {PtrTo(e) : e \in S}
  \cup {MapOf(key, e) : key \in {t \in S : Comparable(t)}, e \in S}
  \cup {StructOf(f) : f \in SeqsUpTo(S, MaxFields)}
  \cup {ChanOf(d, e) : d \in 1..3, e \in S}
  \cup {FuncOf(in, out, FALSE) : in \in SeqsUpTo(P, MaxParams), out \in SeqsUpTo(P, MaxParams)}
  \cup {FuncOf(Append(in, SliceOf(e)), <<>>, TRUE) : in \in SeqsUpTo(P, MaxParams - 1), e \in P}

ParamTypes == {Simple(K.Int64), Simple(K.String)}

\* Composite types used as parts of the two-level types.
MidTypes ==
  {StructOf(<<>>), StructOf(<<Simple(K.Int64), Simple(K.Bool)>>),
   SliceOf(Simple(K.Uint8)), PtrTo(Simple(K.Int)), ArrayOf(2, Simple(K.Float64)),
   MapOf(Simple(K.String), Simple(K.Int64)), ChanOf(3, Simple(K.Bool)),
   FuncOf(<<Simple(K.Int64)>>, <<Simple(K.Bool)>>, FALSE)}

SampleTypes ==
  LeafTypes \cup Composites(LeafTypes, ParamTypes)
            \cup Composites(MidTypes, {SliceOf(Simple(K.Uint8))})

(***************************************************************************)
(* A base is computed from a type, decoded again (alone, or followed by    *)
(* the bytes of an enclosing base), and the decoded type is encoded again. *)
(***************************************************************************)
InitBase ==
  /\ bsType \in SampleTypes
  /\ bsTail \in {<<>>, <<K.Bool>>}
  /\ bsBase = <<>>
  /\ bsDec = Dec(NilType, 0)
  /\ bsRe = <<>>
  /\ bsPc = "start"

ParkBase ==
  /\ bsType = NilType
  /\ bsTail = <<>>
  /\ bsBase = <<>>
  /\ bsDec = Dec(NilType, 0)
  /\ bsRe = <<>>
  /\ bsPc = "off"

\* b := baseOf(t)
Encode ==
  /\ bsPc = "start"
  /\ bsBase' = baseOf(bsType)
  /\ bsPc' = "encoded"
  /\ UNCHANGED <<notBase, bsType, bsTail, bsDec, bsRe>>

\* t, c := b.asTypeRec(), b possibly followed by the rest of an enclosing base
Decode ==
  /\ bsPc = "encoded"
  /\ bsDec' = asTypeRec(bsBase \o bsTail)
  /\ bsPc' = IF bsDec'.panic THEN "panic" ELSE "decoded"
  /\ UNCHANGED <<notBase, bsType, bsTail, bsBase, bsRe>>

\* baseOf(t) of the decoded type; t.Kind() of a nil Type panics
Reencode ==
  /\ bsPc = "decoded"
  /\ IF bsDec.t = NilType
       THEN bsPc' = "panic" /\ bsRe' = bsRe
       ELSE bsPc' = "reencoded" /\ bsRe' = baseOf(bsDec.t)
  /\ UNCHANGED <<notBase, bsType, bsTail, bsBase, bsDec>>

(***************************************************************************)
(* Library[T]: goroutines call Get concurrently.  Every statement of Get   *)
(* that touches the map or the mutex is one step.                          *)
(*   mux   the sync.RWMutex: readers holds the number of read locks,       *)
(*         writer the goroutine that called Lock (0 for none; new readers  *)
(*         wait from then on), wlocked whether its Lock has returned;      *)
(*   m     the map, a function from the keys built so far;                 *)
(*   calls how often the builder was invoked for each type;                *)
(*   libStack, for each goroutine, the types of the Get calls that are     *)
(*         waiting inside the builder for the Get call it made.            *)
(***************************************************************************)
\* Number of goroutines that call Get.
NumGoroutines == 2

\* Cap on the builder invocations per type (reached only if Get builds twice).
MaxBuilds == 2

Goroutines == 1..NumGoroutines

\* The types Get is called with; the builder reports false for "tU", and
\* builds "tC", a composite of "tA", from what x.Get("tA") returns.
LibTypes == {"tA", "tB", "tC", "tU"}

\* The types whose builder calls Get on the same Library, and the type it
\* calls it with.
Composite == {"tC"}

inner(t) == "tA"

\* x.b(t): the n-th invocation for t returns a value of its own (a fresh
\* function value), and reports whether the builder handles t.
builder(t, n) == [o |-> <<t, n>>, ok |-> t # "tU"]

\* x.zero
zero == <<"zero", 0>>

\* o, ok := x.b(t); if !ok { o = x.zero }
builtAlways(r) == r.o

built(r) == IF r.ok THEN r.o ELSE zero

InitLib ==
  /\ m = <<>>
  /\ mux = [readers |-> 0, writer |-> 0, wlocked |-> FALSE]
  /\ calls = [t \in LibTypes |-> 0]
  /\ libPc = [g \in Goroutines |-> "idle"]
  /\ libArg = [g \in Goroutines |-> "tA"]
  /\ libO = [g \in Goroutines |-> zero]
  /\ libRet = [g \in Goroutines |-> zero]
  /\ libSlow = [g \in Goroutines |-> FALSE]
  /\ libStack = [g \in Goroutines |-> <<>>]

ParkLib ==
  /\ m = <<>>
  /\ mux = [readers |-> 0, writer |-> 0, wlocked |-> FALSE]
  /\ calls = [t \in LibTypes |-> 0]
  /\ libPc = [g \in Goroutines |-> "off"]
  /\ libArg = [g \in Goroutines |-> "tA"]
  /\ libO = [g \in Goroutines |-> zero]
  /\ libRet = [g \in Goroutines |-> zero]
  /\ libSlow = [g \in Goroutines |-> FALSE]
  /\ libStack = [g \in Goroutines |-> <<>>]

\* m with key t set to o.
Store(mp, t, o) == [k \in DOMAIN mp \cup {t} |-> IF k = t THEN o ELSE mp[k]]

Goto(g, pc) == libPc' = [libPc EXCEPT ![g] = pc]

\* A goroutine calls x.Get(t).
GetCall(g, t) ==
  /\ libPc[g] \in {"idle", "done"}
  /\ libArg' = [libArg EXCEPT ![g] = t]
  /\ libSlow' = [libSlow EXCEPT ![g] = FALSE]
  /\ Goto(g, "rlock")
  /\ UNCHANGED <<notLib, m, mux, calls, libO, libRet, libStack>>

\* x.mux.RLock()
GetRLock(g) ==
  /\ libPc[g] = "rlock"
  /\ mux.writer = 0
  /\ mux' = [mux EXCEPT !.readers = @ + 1]
  /\ Goto(g, "read")
  /\ UNCHANGED <<notLib, m, calls, libArg, libO, libRet, libSlow, libStack>>

\* return o.  A Get called by a goroutine returns to it; a Get called by the
\* builder returns into the builder, which then returns its own result to
\* the Get that invoked it.
GetReturn(g, o) ==
  IF libStack[g] = <<>>
    THEN /\ libRet' = [libRet EXCEPT ![g] = o]
         /\ Goto(g, "done")
         /\ UNCHANGED <<libArg, libO, libStack>>
    ELSE /\ libArg' = [libArg EXCEPT ![g] = Head(libStack[g])]
         /\ libStack' = [libStack EXCEPT ![g] = Tail(@)]
         /\ libO' = [libO EXCEPT ![g] =
                       built(builder(Head(libStack[g]), calls[Head(libStack[g])]))]
         /\ Goto(g, "store")
         /\ UNCHANGED libRet

\* o, ok := x.m[t] under the read lock, then RUnlock; on a hit Get returns o
GetRead(g) ==
  /\ libPc[g] = "read"
  /\ mux' = [mux EXCEPT !.readers = @ - 1]
  /\ IF libArg[g] \in DOMAIN m
       THEN GetReturn(g, m[libArg[g]])
       ELSE /\ Goto(g, "lock")
            /\ UNCHANGED <<libRet, libArg, libO, libStack>>
  /\ UNCHANGED <<notLib, m, calls, libSlow>>

\* x.mux.Lock(), first half: the writer is announced, new readers wait
GetLock(g) ==
  /\ libPc[g] = "lock"
  /\ mux.writer = 0
  /\ mux' = [mux EXCEPT !.writer = g]
  /\ libSlow' = [libSlow EXCEPT ![g] = TRUE]
  /\ Goto(g, "lockwait")
  /\ UNCHANGED <<notLib, m, calls, libArg, libO, libRet, libStack>>

\* x.mux.Lock(), second half: returns once the readers have left
GetLocked(g) ==
  /\ libPc[g] = "lockwait"
  /\ mux.writer = g /\ mux.readers = 0
  /\ mux' = [mux EXCEPT !.wlocked = TRUE]
  /\ Goto(g, "recheck")
  /\ UNCHANGED <<notLib, m, calls, libArg, libO, libRet, libSlow, libStack>>

\* The second test of Get: another goroutine may have stored t meanwhile.
recheckMiss(g) == FALSE

recheckHit(g) == libArg[g] \in DOMAIN m

\* if o, ok := x.m[t]; ok { x.mux.Unlock(); return o }
GetRecheck(g) ==
  /\ libPc[g] = "recheck"
  /\ IF recheckHit(g)
       THEN /\ libO' = [libO EXCEPT ![g] = m[libArg[g]]]
            /\ Goto(g, "unlock")
       ELSE /\ libO' = libO
            /\ Goto(g, "build")
  /\ UNCHANGED <<notLib, m, mux, calls, libArg, libRet, libSlow, libStack>>

\* o, ok := x.b(t); if !ok { o = x.zero }.  The builder of a composite type
\* starts with a call of x.Get for the inner type, made by the goroutine
\* that is inside Get, between Lock and Unlock.
GetBuild(g) ==
  /\ libPc[g] = "build"
  /\ calls[libArg[g]] < MaxBuilds
  /\ calls' = [calls EXCEPT ![libArg[g]] = @ + 1]
  /\ IF libArg[g] \in Composite
       THEN /\ libStack' = [libStack EXCEPT ![g] = <<libArg[g]>> \o @]
            /\ libArg' = [libArg EXCEPT ![g] = inner(libArg[g])]
            /\ Goto(g, "rlock")
            /\ UNCHANGED libO
       ELSE /\ libO' = [libO EXCEPT ![g] =
                          built(builder(libArg[g], calls[libArg[g]] + 1))]
            /\ Goto(g, "store")
            /\ UNCHANGED <<libArg, libStack>>
  /\ UNCHANGED <<notLib, m, mux, libRet, libSlow>>

\* x.m[t] = o
GetStore(g) ==
  /\ libPc[g] = "store"
  /\ m' = Store(m, libArg[g], libO[g])
  /\ Goto(g, "unlock")
  /\ UNCHANGED <<notLib, mux, calls, libArg, libO, libRet, libSlow, libStack>>

\* x.mux.Unlock(); return o
GetUnlock(g) ==
  /\ libPc[g] = "unlock"
  /\ mux' = [mux EXCEPT !.writer = 0, !.wlocked = FALSE]
  /\ GetReturn(g, libO[g])
  /\ UNCHANGED <<notLib, m, calls, libSlow>>

(***************************************************************************)
(* The resolution engine.  A registered conversion is a closure; the model *)
(* keeps what the closure captured.                                        *)
(*   Function values (reflect.Value of kind Func):                         *)
(*     UserFn(id, t)      the id-th function given to Load, for type t;    *)
(*     ImplicitFn(t)      reflect.MakeFunc(.., convBasic), made by fill;   *)
(*     SubstFn(k, best)   the bridging function of the numeric             *)
(*                        substitution: convNumeric into kind k, then best.*)
(*   Implementations (the values of the five maps):                        *)
(*     specificImpl(fn)   calls fn;                                        *)
(*     basicImpl(t, fn)   reinterprets the value as t, then calls fn;      *)
(*     genericImpl(k, fn) wraps the value in the generic accessor of       *)
(*                        family k, then calls fn;                         *)
(*     convInvalid        returns ErrInvalid.                              *)
(***************************************************************************)
UserFn(id, t) == [tag |-> "user", id |-> id, t |-> t]

ImplicitFn(t) == [tag |-> "implicit", t |-> t]

SubstFn(k, best) == [tag |-> "subst", k |-> k, best |-> best]

specificImpl(fn) == [tag |-> "specific", fn |-> fn]

basicImpl(t, fn) == [tag |-> "basic", t |-> t, fn |-> fn]

genericImpl(k, fn) == [tag |-> "generic", k |-> k, fn |-> fn]

convInvalid == [tag |-> "invalid"]

\* reflect.Kind corresponding to a generic numeric value
reflectNumeric == K.UnsafePointer + 1

\* The generic-family marker types: reflect.TypeOf(Array{}), ... of package
\* conv.  They are defined types, so never basic, and only their identity
\* matters.
Marker(nm) == Defined(nm, StructOf(<<>>))

arrayType == Marker("conv.Array")

mapType == Marker("conv.Map")

numericType == Marker("conv.Number")

pointerType == Marker("conv.Pointer")

sliceType == Marker("conv.Slice")

structType == Marker("conv.Struct")

\* The kind under which Load registers a marker type in generic.
markerKind(t) ==
  CASE t = arrayType   -> K.Array
    [] t = numericType -> reflectNumeric
    [] t = sliceType   -> K.Slice
    [] t = mapType     -> K.Map
    [] t = pointerType -> K.Pointer
    [] t = structType  -> K.Struct
    [] OTHER           -> K.Invalid

\* base.hash: a 64-bit maphash digest of the bytes; equal bases have equal
\* digests, and different bases are taken to have different ones.
hash(x) == <<"maphash", x>>

RECURSIVE concreteFrom(_, _)
\* The loop of isConcrete from index i on.
concreteFrom(x, i) ==
  IF i >= Len(x) THEN TRUE
  ELSE LET k == x[i + 1] IN
    IF k = K.Interface THEN FALSE
    ELSE IF k \in {K.Array, K.Struct} THEN concreteFrom(x, i + 2)
    ELSE IF k = K.Func THEN concreteFrom(x, i + 3)
    ELSE concreteFrom(x, i + 1)

\* The counterpart of isConcrete that reads every byte as a kind.
isConcreteEveryByte(x) == \A i \in 1..Len(x) : x[i] # K.Interface

\* isConcrete returns true if the base does not contain any interfaces.
isConcrete(x) == concreteFrom(x, 0)

RECURSIVE isBasic(_)
\* isBasic returns true if t is an undefined type, either simple or composed
\* of only undefined types.
isBasic(t) ==
  IF t.nm # "" THEN FALSE
  ELSE IF t.k \in SimpleKinds THEN TRUE
  ELSE IF t.k \in {K.Array, K.Slice, K.Pointer, K.Map, K.Struct, K.Func}
    THEN \A i \in 1..Len(t.sub) : isBasic(t.sub[i])
  ELSE FALSE

\* The five maps of a Scheme or Inverse, as one record.
Maps(c, s, g, b, n) == [cache |-> c, specific |-> s, generic |-> g, basic |-> b, numeric |-> n]

EmptyMaps == Maps(<<>>, <<>>, <<>>, <<>>, <<>>)

\* The counterpart of loadSpecific that also forgets what the cache holds
\* for t.
loadSpecificForgetting(x, t, convFunc) ==
  [x EXCEPT !.specific = Store(@, t, specificImpl(convFunc)),
            !.cache = [u \in DOMAIN @ \ {t} |-> @[u]]]

loadSpecific(x, t, convFunc) ==
  [x EXCEPT !.specific = Store(@, t, specificImpl(convFunc))]

loadGeneric(x, k, convFunc) ==
  [x EXCEPT !.generic = Store(@, k, genericImpl(k, convFunc))]

\* The counterpart of loadBasic that remembers every conversion as an
\* original one.
loadBasicAsOriginal(x, t, convFunc, original) ==
  LET fn == basicImpl(t, convFunc)
      x1 == loadSpecific(x, t, convFunc)
      x2 == [x1 EXCEPT !.basic = Store(@, hash(baseOf(t)), fn)]
  IN IF t.k \in NumericKinds
       THEN [x2 EXCEPT !.numeric = Store(@, t.k, fn)]
       ELSE x2

\* if original is true, will remember the conversion as an original
\* conversion for the purpose of numeric conversions
loadBasic(x, t, convFunc, original) ==
  LET fn == basicImpl(t, convFunc)
      x1 == loadSpecific(x, t, convFunc)
      x2 == [x1 EXCEPT !.basic = Store(@, hash(baseOf(t)), fn)]
  IN IF original /\ t.k \in NumericKinds
       THEN [x2 EXCEPT !.numeric = Store(@, t.k, fn)]
       ELSE x2

\* Load, for a well-formed function whose counter-type is t.
load(x, t, v) ==
  IF isBasic(t) THEN loadBasic(x, t, v, TRUE)
  ELSE IF markerKind(t) # K.Invalid THEN loadGeneric(x, markerKind(t), v)
  ELSE loadSpecific(x, t, v)

\* fill generates the implicit conversion if a suitable basic conversion has
\* not been defined.  asType panics or returns the nil Type for some bases;
\* reflect.FuncOf panics on a nil Type.
fill(x, fixed) ==
  LET b == baseOf(fixed) IN
    IF ~isConcrete(b) THEN [panic |-> FALSE, x |-> x]
    ELSE IF hash(b) \in DOMAIN x.basic THEN [panic |-> FALSE, x |-> x]
    ELSE LET d == asType(b) IN
      IF d.panic \/ d.t = NilType THEN [panic |-> TRUE, x |-> x]
      ELSE [panic |-> FALSE, x |-> loadBasic(x, d.t, ImplicitFn(d.t), TRUE)]

\* The test of Build for an empty rule set.
isEmptyNever(x) == FALSE

isEmpty(x) == x.specific = <<>> /\ x.generic = <<>> /\ x.basic = <<>>

\* The rating the substitution loop computes for registered kind kk and
\* counter-kind k.
substRate(d, kk, k) ==
  IF d = "scheme" THEN RateConversion(kk, k) ELSE RateConversion(k, kk)

\* The counterpart of bestKinds without the test r >= 0.
bestKindsAnyRate(d, num, k) ==
  {kk \in DOMAIN num :
     \A k2 \in DOMAIN num : substRate(d, kk, k) <= substRate(d, k2, k)}

\* The kinds the substitution loop can end with.  Go ranges over a map in an
\* unspecified order, and the loop keeps the first kind with the least
\* non-negative rating, so any kind with that rating can be the result.
bestKinds(d, num, k) ==
  {kk \in DOMAIN num :
     /\ substRate(d, kk, k) >= 0
     /\ \A k2 \in DOMAIN num :
          substRate(d, k2, k) >= 0 => substRate(d, kk, k) <= substRate(d, k2, k)}

Resolved(x, impl, how) == [x |-> x, impl |-> impl, how |-> how]

\* x.cache[srcType] = f
CachedInvalid(x, t, impl) == [x EXCEPT !.cache = Store(@, t, convInvalid)]

Cached(x, t, impl) == [x EXCEPT !.cache = Store(@, t, impl)]

\* The counterpart of substituted that does not store the rule in the cache.
substitutedUncached(x1, t, h) == Resolved(x1, x1.basic[h], "substitute")

\* The end of the substitution branch: x1 is the maps after loadBasic.
substituted(x1, t, h) == Resolved(Cached(x1, t, x1.basic[h]), x1.basic[h], "substitute")

Found(impl, how) == [found |-> TRUE, impl |-> impl, how |-> how]

NotFound == [found |-> FALSE, impl |-> convInvalid, how |-> "none"]

\* The kind looked up in generic for a value of kind k.
genericKind(k) == IF k \in NumericKinds THEN reflectNumeric ELSE k

\* The counterpart of registered that looks in generic before specific.
registeredGenericFirst(x, t) ==
  IF genericKind(t.k) \in DOMAIN x.generic
    THEN Found(x.generic[genericKind(t.k)], "generic")
  ELSE IF t \in DOMAIN x.specific THEN Found(x.specific[t], "specific")
  ELSE IF hash(baseOf(t)) \in DOMAIN x.basic THEN Found(x.basic[hash(baseOf(t))], "basic")
  ELSE NotFound

\* The counterpart of registered that looks in basic before generic.
registeredBasicFirst(x, t) ==
  IF t \in DOMAIN x.specific THEN Found(x.specific[t], "specific")
  ELSE IF hash(baseOf(t)) \in DOMAIN x.basic THEN Found(x.basic[hash(baseOf(t))], "basic")
  ELSE IF genericKind(t.k) \in DOMAIN x.generic
    THEN Found(x.generic[genericKind(t.k)], "generic")
  ELSE NotFound

\* The counterpart of registered that takes any basic entry for any Base.
registeredAnyBase(x, t) ==
  IF t \in DOMAIN x.specific THEN Found(x.specific[t], "specific")
  ELSE IF genericKind(t.k) \in DOMAIN x.generic
    THEN Found(x.generic[genericKind(t.k)], "generic")
  ELSE IF x.basic # <<>> THEN Found(x.basic[CHOOSE h \in DOMAIN x.basic : TRUE], "basic")
  ELSE NotFound

\* The three lookups of the built function after the cache: specific, then
\* generic, then basic.
registered(x, t) ==
  IF t \in DOMAIN x.specific THEN Found(x.specific[t], "specific")
  ELSE IF genericKind(t.k) \in DOMAIN x.generic
    THEN Found(x.generic[genericKind(t.k)], "generic")
  ELSE IF hash(baseOf(t)) \in DOMAIN x.basic THEN Found(x.basic[hash(baseOf(t))], "basic")
  ELSE NotFound

\* The numeric substitution, reached when the three lookups found nothing:
\* best is the kind the loop ended with (used only if the loop found one).
substitute(d, x, t, best) ==
  IF t.k \in NumericKinds /\ bestKinds(d, x.numeric, t.k) # {}
    THEN substituted(loadBasic(x, Simple(t.k), SubstFn(best, x.numeric[best]), FALSE),
                     t, hash(baseOf(t)))
  ELSE IF t.k \in NumericKinds
    THEN Resolved(Cached([x EXCEPT !.basic = Store(@, hash(baseOf(t)), convInvalid)],
                         t, convInvalid),
                  convInvalid, "numeric-invalid")
  ELSE Resolved(Cached(x, t, convInvalid), convInvalid, "invalid")

\* The rest of the built function once the lookups gave f.
resolved(d, x, t, best, f) ==
  IF f.found THEN Resolved(Cached(x, t, f.impl), f.impl, f.how)
  ELSE substitute(d, x, t, best)

\* The built function up to the point where it calls the implementation it
\* chose for counter-type t: the maps afterwards, the implementation, and
\* the step that found it.
resolve(d, x, t, best) ==
  IF t \in DOMAIN x.cache THEN Resolved(x, x.cache[t], "cache")
  ELSE resolved(d, x, t, best, registered(x, t))

\* What a call of an implementation does: the function given to Load that
\* ends up being called (0 for the implicit convBasic function, -1 if none
\* is called), the conversions applied around it in the order they run, and
\* whether the call panicked.
Step(op, t) == [op |-> op, t |-> t]

NoRun == [rule |-> -1, path |-> <<>>, panic |-> FALSE]

Ran(acc, step) == [acc EXCEPT !.path = Append(@, step)]

Panicked(acc) == [acc EXCEPT !.panic = TRUE]

\* numeric.Convert as the bridging function calls it: into a fresh value of
\* kind dstKind, from a value of kind srcKind.
bridge(dstKind, srcKind) ==
  Convert(Arg("ptr", dstKind, NumVal(dstKind, Zero, Zero)),
          Arg("value", srcKind, NumVal(srcKind, One, Zero)))

\* fn.Call(args) for a function given to Load or made by fill.  Only such
\* functions are ever stored in numeric, so these are the functions a
\* bridging function calls.
callOriginal(fn, acc) ==
  IF fn.tag = "user" THEN [acc EXCEPT !.rule = fn.id]
  ELSE [Ran(acc, Step("convBasic", fn.t)) EXCEPT !.rule = 0]

\* best(args), best being an entry of numeric: the wrapper made by loadBasic
\* around an original function.
invokeOriginal(d, impl, acc) ==
  IF d = "scheme"
    THEN callOriginal(impl.fn, Ran(acc, Step("convBasic", impl.t)))
    ELSE Ran(callOriginal(impl.fn, acc), Step("convBasic", impl.t))

\* The body of the bridging function, given whether its numeric.Convert
\* call panics.
bridged(d, fn, cur, acc, convertPanics) ==
  IF d = "scheme"
    THEN IF convertPanics THEN Panicked(Ran(acc, Step("convNumeric", Simple(fn.k))))
         ELSE invokeOriginal(d, fn.best, Ran(acc, Step("convNumeric", Simple(fn.k))))
    ELSE IF convertPanics
           THEN Panicked(Ran(invokeOriginal(d, fn.best, acc), Step("convNumeric", cur)))
           ELSE Ran(invokeOriginal(d, fn.best, acc), Step("convNumeric", cur))

substRun(d, fn, cur, acc, convertPanics) ==
  IF d = "inverse" /\ cur # Simple(fn.k) THEN Panicked(acc)
  ELSE bridged(d, fn, cur, acc, convertPanics)

\* The bridging function of a numeric substitution, called with a
\* counter-value of type cur (Scheme: the source; Inverse: what the
\* destination pointer points to).  reflect's Call panics if an argument is
\* not assignable to the parameter; the Inverse declares the first parameter
\* as a pointer to the substitute's type.
callSubst(d, fn, cur, acc) ==
  substRun(d, fn, cur, acc,
           bridge(IF d = "scheme" THEN fn.k ELSE cur.k,
                  IF d = "scheme" THEN cur.k ELSE fn.k).panic)

\* fn.Call(args), where cur is the type of the counter-value handed to fn.
callFn(d, fn, cur, acc) ==
  IF fn.tag = "subst" THEN callSubst(d, fn, cur, acc) ELSE callOriginal(fn, acc)

\* What the wrapper of a basic or generic implementation does before it
\* calls the function it wraps.
wrapBefore(d, impl, cur) ==
  IF impl.tag = "generic" THEN Ran(NoRun, Step("generic", cur))
  ELSE IF impl.tag = "basic" /\ d = "scheme" THEN Ran(NoRun, Step("convBasic", impl.t))
  ELSE NoRun

\* What the wrapper does after the function r has returned.
wrapAfter(d, impl, cur, r) ==
  IF impl.tag = "basic" /\ d = "inverse" /\ ~r.panic
    THEN Ran(r, Step("convBasic", cur)) ELSE r

\* impl(args), where cur is the type of the counter-value in args.
invoke(d, impl, cur) ==
  IF impl.tag = "invalid" THEN NoRun
  ELSE wrapAfter(d, impl, cur,
                 callFn(d, impl.fn, IF impl.tag = "basic" THEN impl.t ELSE cur,
                        wrapBefore(d, impl, cur)))

(***************************************************************************)
(* A Scheme or Inverse in use: functions are loaded, Build makes the       *)
(* dispatch function, and the dispatch function is called.  Rules are      *)
(* loaded before Build.                                                    *)
(***************************************************************************)
\* Largest number of Load calls.
MaxLoads == 2

\* Largest number of calls of the built function.
MaxDispatch == 3

int8T == Simple(K.Int8)

intT == Simple(K.Int)

int64T == Simple(K.Int64)

uint64T == Simple(K.Uint64)

float64T == Simple(K.Float64)

complex64T == Simple(K.Complex64)

stringT == Simple(K.String)

\* struct{X int64; Y bool}
structS == StructOf(<<int64T, Simple(K.Bool)>>)

\* type A struct{X int64; Y bool}, type B struct{X int64; Y bool}
structA == Defined("A", structS)

structB == Defined("B", structS)

\* type U uint64
namedU == Defined("U", uint64T)

\* type F float64
namedF == Defined("F", float64T)

\* interface{}
emptyType == Ty(K.Interface, "", 0, 0, <<>>)

\* The types of the first argument of MakeScheme / MakeInverse.
FixedTypes == {float64T, emptyType, structA, PtrTo(intT)}

\* The counter-types of the functions given to Load.
LoadTypes == {intT, int64T, float64T, complex64T, structS, structA, numericType, structType}

\* The dynamic types of the values given to the built function; NilType
\* is a nil interface value.
DispatchTypes == {NilType, int8T, intT, int64T, uint64T, namedU, float64T, namedF,
                  structS, structA, structB, stringT}

\* The errors a loaded function returns.
RuleErrors == {"nil", "rule error"}

regs == Maps(cache, specific, generic, basic, numeric)

SetRegs(x) ==
  /\ cache' = x.cache
  /\ specific' = x.specific
  /\ generic' = x.generic
  /\ basic' = x.basic
  /\ numeric' = x.numeric

Called(n, t, how, run, err, pick, ret) ==
  [n |-> n, t |-> t, how |-> how, rule |-> run.rule, path |-> run.path,
   panic |-> run.panic, err |-> err, pick |-> pick, ret |-> ret]

NoCall == Called(0, NilType, "none", NoRun, "nil", K.Invalid, "nil")

InitEng ==
  /\ dir \in {"scheme", "inverse"}
  /\ fixedType \in FixedTypes
  /\ cache = <<>> /\ specific = <<>> /\ generic = <<>> /\ basic = <<>> /\ numeric = <<>>
  /\ loads = <<>>
  /\ phase = "open"
  /\ last = NoCall
  /\ seen = <<>>
  /\ loadErr = "nil"

ParkEng ==
  /\ dir = "scheme"
  /\ fixedType = NilType
  /\ cache = <<>> /\ specific = <<>> /\ generic = <<>> /\ basic = <<>> /\ numeric = <<>>
  /\ loads = <<>>
  /\ phase = "open"
  /\ last = NoCall
  /\ seen = <<>>
  /\ loadErr = "nil"

(***************************************************************************)
(* The arguments of Load, Build and Recursion (interface{} values), as far *)
(* as the evaluator looks at them: nil, a value that is not a function, a  *)
(* function value, or a pointer to a function variable, with the types of  *)
(* the function's parameters and results.                                  *)
(***************************************************************************)
Fn(shape, in, out) == [shape |-> shape, in |-> in, out |-> out]

FnNil == Fn("nil", <<>>, <<>>)

FnValue == Fn("value", <<>>, <<>>)

\* reflect.TypeOf(new(error)).Elem()
errorType == Ty(K.Interface, "error", 0, 0, <<>>)

\* funcVal: the error it returns ("nil" for none).
funcVal(v) ==
  IF v.shape = "nil" THEN "nil input"
  ELSE IF v.shape \notin {"func", "funcptr"} THEN "non-function input"
  ELSE "nil"

\* funcRefVal: only what a pointer points to can be set.
funcRefVal(v) ==
  IF funcVal(v) # "nil" THEN funcVal(v)
  ELSE IF v.shape # "funcptr" THEN "non-settable input"
  ELSE "nil"

\* The kind a stand-in type in want asks for (K.Invalid: want is no stand-in).
wantKind(w) ==
  CASE w = mapType     -> K.Map
    [] w = pointerType -> K.Pointer
    [] w = sliceType   -> K.Slice
    [] w = structType  -> K.Struct
    [] OTHER           -> K.Invalid

\* The errors of checkType, without the numbers and types they mention.
errCount(side) ==
  IF side = "input" THEN "expected function with n inputs"
  ELSE "expected function with n outputs"

errType(side) ==
  IF side = "input" THEN "expected input #i to be t" ELSE "expected output #i to be t"

\* The counterpart of checkType that compares the numbers of types only.
checkTypeCounts(want, got, side) ==
  IF Len(got) # Len(want) THEN errCount(side) ELSE "nil"

\* funcEval.checkType: want is x.in or x.out, got the function's parameter or
\* result types; a nil element of want (NilType) matches any type.
checkType(want, got, side) ==
  IF Len(got) # Len(want) THEN errCount(side)
  ELSE LET bad == {i \in 1..Len(want) :
                     /\ want[i] # NilType
                     /\ IF wantKind(want[i]) = K.Invalid
                          THEN got[i] # want[i]
                          ELSE got[i].k # wantKind(want[i])}
       IN IF bad = {} THEN "nil" ELSE errType(side)

\* funcEval.evalValue
evalValue(ev, v) ==
  IF checkType(ev.in, v.in, "input") # "nil" THEN checkType(ev.in, v.in, "input")
  ELSE checkType(ev.out, v.out, "output")

\* funcEval.eval
eval(ev, v) == IF funcVal(v) # "nil" THEN funcVal(v) ELSE evalValue(ev, v)

\* funcEval.evalRef
evalRef(ev, v) == IF funcRefVal(v) # "nil" THEN funcRefVal(v) ELSE evalValue(ev, v)

\* makeFuncEvalScheme(v), makeFuncEvalInverse(v), v of type fixed.
makeFuncEval(d, fixed) ==
  IF d = "scheme" THEN [in |-> <<PtrTo(fixed), NilType>>, out |-> <<errorType>>]
  ELSE [in |-> <<pointerType, fixed>>, out |-> <<errorType>>]

\* The counter-type of a function that passed eval: t.In(1) for a Scheme,
\* t.In(0).Elem() for an Inverse.
counterType(d, v) == IF d = "scheme" THEN v.in[2] ELSE v.in[1].sub[1]

\* A function of the expected signature with counter-type t.
GoodFn(d, fixed, t) ==
  IF d = "scheme" THEN Fn("func", <<PtrTo(fixed), t>>, <<errorType>>)
  ELSE Fn("func", <<PtrTo(t), fixed>>, <<errorType>>)

\* A type other than the fixed type.
otherType(fixed) == IF fixed = float64T THEN intT ELSE float64T

\* Arguments that are not functions of the expected signature: nil, not a
\* function, one or three parameters, no or two results, a first parameter
\* that is not the expected pointer, a second parameter that is not the
\* fixed type (Inverse), a result that is not error.
BadFns(d, fixed) ==
  LET g == GoodFn(d, fixed, intT) IN
    {FnNil, FnValue,
     Fn("func", <<g.in[1]>>, g.out),
     Fn("func", g.in \o <<intT>>, g.out),
     Fn("func", g.in, <<>>),
     Fn("func", g.in, <<errorType, errorType>>),
     Fn("func", g.in, <<intT>>),
     Fn("func", g.in, <<emptyType>>),
     Fn("func", <<g.in[1].sub[1], g.in[2]>>, g.out),
     Fn("funcptr", <<g.in[1].sub[1], g.in[2]>>, g.out),
     Fn("func", <<PtrTo(otherType(fixed)), otherType(fixed)>>, g.out)}

\* The body of Load: err is what x.evaluator.eval(fn) returned.
LoadStep(fn, err) ==
  /\ loadErr' = err
  /\ IF err # "nil"
       THEN UNCHANGED <<cache, specific, generic, basic, numeric, loads>>
       ELSE /\ Len(loads) < MaxLoads
            /\ SetRegs(load(regs, counterType(dir, fn),
                            UserFn(Len(loads) + 1, counterType(dir, fn))))
            /\ loads' = Append(loads, counterType(dir, fn))
  /\ UNCHANGED <<notEng, dir, fixedType, phase, last, seen>>

\* x.Load(fn) before a function was built.
LoadFn(fn, err) == phase \in {"open", "empty"} /\ LoadStep(fn, err)

\* The counter-types of the functions loaded after Build.
LateTypes == {int8T, int64T, structA}

\* x.Load(fn) after x.Build made a function: the function made by Build and
\* x hold the same five maps.
LoadLate ==
  /\ phase = "built"
  /\ \E t \in LateTypes :
       LoadStep(GoodFn(dir, fixedType, t), eval(makeFuncEval(dir, fixedType), GoodFn(dir, fixedType, t)))

\* x.Load(fn), fn a function of the expected signature with counter-type t.
Load ==
  \E t \in LoadTypes :
    LoadFn(GoodFn(dir, fixedType, t), eval(makeFuncEval(dir, fixedType), GoodFn(dir, fixedType, t)))

\* type Nil struct{}: "Nil can be used to define explicit handling of nil
\* source values in schemes."
nilMarker == Marker("conv.Nil")

\* x.Load(fn), fn a function of the expected signature with counter-type Nil.
LoadNil ==
  LoadFn(GoodFn(dir, fixedType, nilMarker),
         eval(makeFuncEval(dir, fixedType), GoodFn(dir, fixedType, nilMarker)))

\* The counter-types of the functions loaded to have one numeric kind stand
\* in for another: float64 can hold an int8.
BridgeTypes == {int8T, float64T}

\* x.Load(fn), fn a function of the expected signature for int8 or float64.
LoadNumeric ==
  \E t \in BridgeTypes :
    LoadFn(GoodFn(dir, fixedType, t), eval(makeFuncEval(dir, fixedType), GoodFn(dir, fixedType, t)))

\* x.Load(fn), fn any argument.
LoadAny ==
  \E fn \in BadFns(dir, fixedType) \cup {GoodFn(dir, fixedType, t) : t \in LoadTypes} :
    LoadFn(fn, eval(makeFuncEval(dir, fixedType), fn))

\* x.Build(&fn), fn a function variable of the expected type.  phase becomes
\* "built" if Build returned nil, "empty" if it returned the empty-scheme
\* error, "panic" if it panicked.
Build ==
  /\ phase \in {"open", "empty"}
  /\ LET f == fill(regs, fixedType) IN
       /\ SetRegs(f.x)
       /\ phase' = IF f.panic THEN "panic"
                   ELSE IF isEmpty(f.x) THEN "empty" ELSE "built"
  /\ UNCHANGED <<notEng, dir, fixedType, loads, last, seen, loadErr>>

\* The kinds the substitution loop of a call with counter-type t can end
\* with (K.Invalid: with none).
Candidates(t) ==
  IF bestKinds(dir, numeric, t.k) = {} THEN {K.Invalid} ELSE bestKinds(dir, numeric, t.k)

\* The error the built function returns: r is the resolution, run the call
\* of the implementation, e the error the loaded function returns if called.
errOf(r, run, e) ==
  IF run.panic THEN "nil"
  ELSE IF r.impl = convInvalid THEN "ErrInvalid"
  ELSE IF run.rule = 0 THEN "nil" ELSE e

\* The function given to Load that implementation impl ends with, directly or
\* through a bridging function (0: none, impl is the invalid marker or ends
\* with the implicit function).
selected(impl) ==
  IF impl.tag = "invalid" THEN 0
  ELSE IF impl.fn.tag = "user" THEN impl.fn.id
  ELSE IF impl.fn.tag = "subst" /\ impl.fn.best.fn.tag = "user" THEN impl.fn.best.fn.id
  ELSE 0

\* What a call did, as remembered in seen.
Did(run, err) == [rule |-> run.rule, path |-> run.path, panic |-> run.panic,
                  invalid |-> (err = "ErrInvalid")]

Returned(t, r, run, e, best) ==
  /\ SetRegs(r.x)
  /\ seen' = IF t \in DOMAIN seen THEN seen ELSE Store(seen, t, Did(run, errOf(r, run, e)))
  /\ last' = Called(last.n + 1, t, r.how, run, errOf(r, run, e),
                    IF r.how = "substitute" THEN best ELSE K.Invalid,
                    IF selected(r.impl) > 0 THEN e ELSE "nil")

Resolution(t, r, e, best) == Returned(t, r, invoke(dir, r.impl, t), e, best)

\* fn(dst, src): one call of the built function with a counter-value of
\* dynamic type t.  A nil interface has no type: src.Type() panics.
Dispatch ==
  /\ phase = "built"
  /\ last.n < MaxDispatch
  /\ \E t \in DispatchTypes :
       IF t = NilType
         THEN /\ last' = Called(last.n + 1, t, "none", Panicked(NoRun), "nil", K.Invalid, "nil")
              /\ UNCHANGED <<cache, specific, generic, basic, numeric, seen>>
         ELSE \E best \in Candidates(t) : \E e \in RuleErrors :
                Resolution(t, resolve(dir, regs, t, best), e, best)
  /\ UNCHANGED <<notEng, dir, fixedType, loads, phase, loadErr>>

(***************************************************************************)
(* The Scheme of conv.go, whose basic map is keyed by reflect.Kind.         *)
(*   kBasic, kSpecific   the maps x.basic and x.specific: the function      *)
(*         registered under each kind or type;                              *)
(*   rec   x.rec: the function variable Recursion was given ("" for none); *)
(*   fvars the caller's function variables: 0 for a nil function, n for     *)
(*         the function made by the n-th Build that got as far;             *)
(*   kLast the last call of Load, Recursion, Build or of a built function.  *)
(* A function made by Build keeps the Scheme's maps, which are shared with  *)
(* the Scheme: it looks up whatever they hold when it is called.            *)
(***************************************************************************)
\* Largest number of calls made on a Scheme and its built functions.
MaxOps == 5

\* The type given to MakeScheme.
kDstType == float64T

\* The caller's function variables: f and r of type
\* func(*float64, interface{}) error, q of type func(*float64, int) error,
\* p of type func(*int, interface{}) error, e of type
\* func(*float64, interface{}) int.
FuncVars == {"f", "r", "q", "p", "e"}

VarType(v) ==
  CASE v = "q" -> Fn("funcptr", <<PtrTo(kDstType), intT>>, <<errorType>>)
    [] v = "p" -> Fn("funcptr", <<PtrTo(intT), emptyType>>, <<errorType>>)
    [] v = "e" -> Fn("funcptr", <<PtrTo(kDstType), emptyType>>, <<intT>>)
    [] OTHER   -> Fn("funcptr", <<PtrTo(kDstType), emptyType>>, <<errorType>>)

\* The arguments given to Recursion and Build: nil, a value that is not a
\* function, the function r itself (not a pointer to it), and &v for every
\* function variable v.
Ref(shape, v) == [shape |-> shape, var |-> v]

RefArgs ==
  {Ref("nil", ""), Ref("value", ""), Ref("func", "r")} \cup {Ref("funcptr", v) : v \in FuncVars}

\* The function the argument is or points to.
fnOf(a) ==
  IF a.var = "" THEN Fn(a.shape, <<>>, <<>>)
  ELSE Fn(a.shape, VarType(a.var).in, VarType(a.var).out)

\* funcEval.checkType of conv.go
checkTypeOld(want, got, side) ==
  IF Len(got) # Len(want) THEN errCount(side)
  ELSE IF \E i \in 1..Len(want) : want[i] # NilType /\ got[i] # want[i] THEN errType(side)
  ELSE "nil"

\* funcEval.evalRef of conv.go: funcRefVal, then both checkType calls.
evalRefOld(ev, v) ==
  IF funcRefVal(v) # "nil" THEN funcRefVal(v)
  ELSE IF checkTypeOld(ev.in, v.in, "input") # "nil" THEN checkTypeOld(ev.in, v.in, "input")
  ELSE checkTypeOld(ev.out, v.out, "output")

\* makeFuncEval(v) of conv.go; in1 is x.evaluator.in[1]: nil (NilType) as
\* MakeScheme leaves it, emptyType while Build runs.
makeFuncEvalOld(in1) == [in |-> <<PtrTo(kDstType), in1>>, out |-> <<errorType>>]

\* numericExclusions
numericExclusions(k) ==
  CASE k = K.Int    -> kindInt
    [] k = K.Uint   -> kindUint
    [] k = kindInt  -> K.Int
    [] k = kindUint -> K.Uint
    [] OTHER        -> K.Invalid

\* mp without key k.
Delete(mp, k) == [j \in DOMAIN mp \ {k} |-> mp[j]]

\* A function given to Load (the id-th call), and the function fillNumeric
\* makes for kind k from the function exFunc registered for kind ex.
Rule(id) == [tag |-> "user", id |-> id, k |-> K.Invalid, ex |-> K.Invalid]

Extra(k, ex, exFunc) == [tag |-> "extra", id |-> exFunc.id, k |-> k, ex |-> ex]

\* The counter-types of the functions given to Load.
OldLoadTypes == {intT, int64T, Simple(K.Int8), structA, sliceType}

\* The dynamic types of the values given to a built function.
OldCallTypes == {intT, int64T, Simple(K.Int16), structA, stringT}

\* The body of Load after eval: basic and specific afterwards.
loadOld(b, s, t, v) ==
  IF t = sliceType
    THEN [basic |-> Store(Store(b, K.Array, v), K.Slice, v), specific |-> s]
  ELSE IF t = mapType THEN [basic |-> Store(b, K.Map, v), specific |-> s]
  ELSE IF t = structType THEN [basic |-> Store(b, K.Struct, v), specific |-> s]
  ELSE IF t.nm = "" /\ t.k \in SimpleKinds
    THEN [basic |-> Delete(Store(b, t.k, v), numericExclusions(t.k)), specific |-> s]
  ELSE [basic |-> b, specific |-> Store(s, t, v)]

\* numericChart: for each numeric kind without a function, the kinds with a
\* function it can be extrapolated from.  The loops range over maps, and the
\* first kind with the least rating stays: any kind with that rating.
chartOf(b, k) ==
  {kk \in DOMAIN b \cap NumericKinds :
     /\ RateConversion(kk, k) > -1
     /\ \A k2 \in DOMAIN b \cap NumericKinds :
          RateConversion(k2, k) > -1 => RateConversion(kk, k) <= RateConversion(k2, k)}

numericChart(b) == {k \in NumericKinds \ DOMAIN b : chartOf(b, k) # {}}

\* fill / fillNumeric with the choice ch of a kind for every charted kind.
fillOld(b, ch) ==
  [k \in DOMAIN b \cup DOMAIN ch |->
     IF k \in DOMAIN ch THEN Extra(k, ch[k], b[ch[k]]) ELSE b[k]]

Charts(b) == {ch \in [numericChart(b) -> DOMAIN b \cap NumericKinds] :
                \A k \in DOMAIN ch : ch[k] \in chartOf(b, k)}

\* What x.rec.Set(f) does to the function variables.
recSetNone(fv, n) == fv

recSet(fv, n) == IF rec = "" THEN fv ELSE [fv EXCEPT ![rec] = n]

\* x.rec.Set(f) panics if f, of the type of Build's argument, is not
\* assignable to the variable Recursion was given.
recPanics(a) == rec # "" /\ VarType(rec) # VarType(a.var)

Did1(op, a, err, panic) ==
  [n |-> kLast.n + 1, op |-> op, arg |-> a, err |-> err, panic |-> panic,
   t |-> NilType, how |-> "", rule |-> -1]

InitOld ==
  /\ kBasic = <<>> /\ kSpecific = <<>>
  /\ rec = ""
  /\ fvars = [v \in FuncVars |-> 0]
  /\ kLast = [n |-> 0, op |-> "", arg |-> Ref("nil", ""), err |-> "nil", panic |-> FALSE,
              t |-> NilType, how |-> "", rule |-> -1]

ParkOld == InitOld

\* x.Load(fn), fn a function func(*float64, t) error
OldLoad ==
  /\ kLast.n < MaxOps /\ ~kLast.panic
  /\ \E t \in OldLoadTypes :
       /\ kBasic' = loadOld(kBasic, kSpecific, t, Rule(kLast.n + 1)).basic
       /\ kSpecific' = loadOld(kBasic, kSpecific, t, Rule(kLast.n + 1)).specific
  /\ kLast' = Did1("Load", Ref("func", ""), "nil", FALSE)
  /\ UNCHANGED <<notOld, rec, fvars>>

\* x.Recursion(fn)
Recursion ==
  /\ kLast.n < MaxOps /\ ~kLast.panic
  /\ \E a \in RefArgs :
       /\ kLast' = Did1("Recursion", a, evalRefOld(makeFuncEvalOld(NilType), fnOf(a)), FALSE)
       /\ rec' = IF evalRefOld(makeFuncEvalOld(NilType), fnOf(a)) = "nil" THEN a.var ELSE rec
  /\ UNCHANGED <<notOld, kBasic, kSpecific, fvars>>

\* x.Build(fn) with argument a, from x.fill() on: ch is what numericChart
\* returned.
Built(a, ch) ==
  /\ kBasic' = fillOld(kBasic, ch)
  /\ fvars' = IF recPanics(a) THEN [fvars EXCEPT ![a.var] = kLast.n + 1]
              ELSE recSet([fvars EXCEPT ![a.var] = kLast.n + 1], kLast.n + 1)
  /\ kLast' = Did1("Build", a, "nil", recPanics(a))

\* x.Build(fn)
OldBuild ==
  /\ kLast.n < MaxOps /\ ~kLast.panic
  /\ \E a \in RefArgs :
       IF kBasic = <<>> /\ kSpecific = <<>>
         THEN /\ kLast' = Did1("Build", a, "empty scheme", FALSE)
              /\ UNCHANGED <<kBasic, fvars>>
       ELSE IF evalRefOld(makeFuncEvalOld(emptyType), fnOf(a)) # "nil"
         THEN /\ kLast' = Did1("Build", a, evalRefOld(makeFuncEvalOld(emptyType), fnOf(a)), FALSE)
              /\ UNCHANGED <<kBasic, fvars>>
       ELSE \E ch \in Charts(kBasic) : Built(a, ch)
  /\ UNCHANGED <<notOld, kSpecific, rec>>

\* src.CanConvert(dstType), for a source that is not numeric or a destination
\* that is not: the underlying types are identical, or an integer is
\* converted to a string.
CanConvert(src, dst) ==
  \/ [src EXCEPT !.nm = ""] = [dst EXCEPT !.nm = ""]
  \/ dst.k = K.String /\ src.k \in NumericKinds /\ Descriptors[src.k].Nature # Nature.Float
                      /\ Descriptors[src.k].Nature # Nature.Complex

\* The function made by Build, called with a value of dynamic type t: the
\* step that answers and the function given to Load that it calls.
dispatchOld(b, s, t) ==
  IF t \in DOMAIN s THEN [how |-> "specific", rule |-> s[t].id, err |-> "nil"]
  ELSE IF t.k \in DOMAIN b THEN [how |-> "basic", rule |-> b[t.k].id, err |-> "nil"]
  ELSE IF kDstType.k \in NumericKinds /\ t.k \in NumericKinds
    THEN IF RateConversion(kDstType.k, t.k) > -1
           THEN [how |-> "numeric", rule |-> -1, err |-> "nil"]
           ELSE [how |-> "invalid", rule |-> -1, err |-> "invalid conversion"]
  ELSE IF CanConvert(t, kDstType) THEN [how |-> "convert", rule |-> -1, err |-> "nil"]
  ELSE [how |-> "invalid", rule |-> -1, err |-> "invalid conversion"]

\* A call v(dst, src) of the function in variable v, made by the caller
\* (v = "f") or by a loaded function during a conversion (v = "r").
OldCall ==
  /\ kLast.n < MaxOps /\ ~kLast.panic
  /\ \E v \in {"f", "r"} : \E t \in OldCallTypes :
       kLast' = IF fvars[v] = 0
                  THEN Did1("Call", Ref("func", v), "nil", TRUE)
                  ELSE [Did1("Call", Ref("func", v), dispatchOld(kBasic, kSpecific, t).err, FALSE)
                          EXCEPT !.t = t,
                                 !.how = dispatchOld(kBasic, kSpecific, t).how,
                                 !.rule = dispatchOld(kBasic, kSpecific, t).rule]
  /\ UNCHANGED <<notOld, kBasic, kSpecific, rec, fvars>>

(***************************************************************************)
(* The built function called from several goroutines.  The function takes  *)
(* no lock: every access of cache, specific, generic, basic and numeric is *)
(* a step of its own, and the steps of different goroutines interleave.    *)
(* Two goroutines about to access the same map, one of them writing, with  *)
(* nothing ordering the two accesses, are a data race; the Go runtime then *)
(* either lets the accesses happen or stops the program ("concurrent map   *)
(* writes", "concurrent map read and map write").                          *)
(***************************************************************************)
\* Largest number of calls a goroutine makes.
MaxCalls == 2

\* Largest number of functions loaded before Build.
MaxRaceLoads == 1

\* The dynamic types of the values the goroutines pass.
RaceTypes == {int8T, uint64T, namedU, structB}

\* The fixed types of the Schemes and Inverses that are called concurrently.
RaceFixedTypes == {float64T, emptyType}

Idle(n) == [pc |-> "idle", n |-> n, t |-> NilType, impl |-> convInvalid, best |-> K.Invalid]

RECURSIVE loadAll(_, _, _)
\* The maps after Load was called with functions for ls[i], ls[i+1], ...
loadAll(x, ls, i) ==
  IF i > Len(ls) THEN x ELSE loadAll(load(x, ls[i], UserFn(i, ls[i])), ls, i + 1)

\* The maps after Build on a Scheme or Inverse with those functions loaded.
builtMaps(ls, fixed) == fill(loadAll(EmptyMaps, ls, 1), fixed)

InitRace ==
  /\ dir \in {"scheme", "inverse"}
  /\ fixedType \in RaceFixedTypes
  /\ loads \in SeqsUpTo(LoadTypes, MaxRaceLoads)
  /\ ~builtMaps(loads, fixedType).panic
  /\ ~isEmpty(builtMaps(loads, fixedType).x)
  /\ cache = builtMaps(loads, fixedType).x.cache
  /\ specific = builtMaps(loads, fixedType).x.specific
  /\ generic = builtMaps(loads, fixedType).x.generic
  /\ basic = builtMaps(loads, fixedType).x.basic
  /\ numeric = builtMaps(loads, fixedType).x.numeric
  /\ phase = "built"
  /\ last = NoCall
  /\ seen = <<>>
  /\ loadErr = "nil"
  /\ gor = [g \in Goroutines |-> Idle(0)]
  /\ walks = [t \in RaceTypes |-> 0]
  /\ crashed = FALSE

ParkRace ==
  /\ gor = [g \in Goroutines |-> Idle(0)]
  /\ walks = [t \in RaceTypes |-> 0]
  /\ crashed = FALSE

\* The map access goroutine g is about to make.
Access(g) ==
  CASE gor[g].pc = "cache"       -> [map |-> "cache", write |-> FALSE]
    [] gor[g].pc = "specific"    -> [map |-> "specific", write |-> FALSE]
    [] gor[g].pc = "generic"     -> [map |-> "generic", write |-> FALSE]
    [] gor[g].pc = "basic"       -> [map |-> "basic", write |-> FALSE]
    [] gor[g].pc = "scan"        -> [map |-> "numeric", write |-> FALSE]
    [] gor[g].pc = "setSpecific" -> [map |-> "specific", write |-> TRUE]
    [] gor[g].pc = "setBasic"    -> [map |-> "basic", write |-> TRUE]
    [] gor[g].pc = "getBasic"    -> [map |-> "basic", write |-> FALSE]
    [] gor[g].pc = "setInvalid"  -> [map |-> "basic", write |-> TRUE]
    [] gor[g].pc = "setCache"    -> [map |-> "cache", write |-> TRUE]
    [] OTHER                     -> [map |-> "none", write |-> FALSE]

\* The access g is about to make conflicts with the one o is about to make.
Conflict(g, o) ==
  /\ g # o
  /\ Access(g).map # "none" /\ Access(g).map = Access(o).map
  /\ Access(g).write \/ Access(o).write

Races(g) == \E o \in Goroutines : Conflict(g, o)

At(g, pc) == ~crashed /\ gor[g].pc = pc

Move(g, pc) == gor' = [gor EXCEPT ![g].pc = pc]

Chose(g, impl) == gor' = [gor EXCEPT ![g].pc = "setCache", ![g].impl = impl]

raceRest == <<notRace, dir, fixedType, loads, phase, last, seen, loadErr>>

\* fn(dst, src) is called in goroutine g with a value of type t.
Enter(g, t) ==
  /\ At(g, "idle") /\ gor[g].n < MaxCalls
  /\ gor' = [gor EXCEPT ![g] = [Idle(gor[g].n + 1) EXCEPT !.pc = "cache", !.t = t]]
  /\ UNCHANGED <<raceRest, cache, specific, generic, basic, numeric, walks, crashed>>

\* if cache, ok := x.cache[srcType]; ok { return cache(args) }
ReadCache(g) ==
  /\ At(g, "cache")
  /\ IF gor[g].t \in DOMAIN cache
       THEN /\ gor' = [gor EXCEPT ![g].pc = "run", ![g].impl = cache[gor[g].t]]
            /\ walks' = walks
       ELSE /\ Move(g, "specific")
            /\ walks' = [walks EXCEPT ![gor[g].t] = @ + 1]
  /\ UNCHANGED <<raceRest, cache, specific, generic, basic, numeric, crashed>>

\* if specific, ok := x.specific[srcType]; ok { ...
ReadSpecific(g) ==
  /\ At(g, "specific")
  /\ IF gor[g].t \in DOMAIN specific
       THEN Chose(g, specific[gor[g].t])
       ELSE Move(g, "generic")
  /\ UNCHANGED <<raceRest, cache, specific, generic, basic, numeric, walks, crashed>>

\* if generic, ok := x.generic[kGen]; ok { ...
ReadGeneric(g) ==
  /\ At(g, "generic")
  /\ IF genericKind(gor[g].t.k) \in DOMAIN generic
       THEN Chose(g, generic[genericKind(gor[g].t.k)])
       ELSE Move(g, "basic")
  /\ UNCHANGED <<raceRest, cache, specific, generic, basic, numeric, walks, crashed>>

\* if basic, ok := x.basic[h]; ok { ... ; a miss leads to the numeric
\* substitution for a numeric kind and to convInvalid for any other.
ReadBasic(g) ==
  /\ At(g, "basic")
  /\ IF hash(baseOf(gor[g].t)) \in DOMAIN basic
       THEN Chose(g, basic[hash(baseOf(gor[g].t))])
       ELSE IF gor[g].t.k \in NumericKinds THEN Move(g, "scan")
       ELSE Chose(g, convInvalid)
  /\ UNCHANGED <<raceRest, cache, specific, generic, basic, numeric, walks, crashed>>

\* for kk, fn := range x.numeric { ... }
ScanNumeric(g) ==
  /\ At(g, "scan")
  /\ IF bestKinds(dir, numeric, gor[g].t.k) = {}
       THEN Move(g, "setInvalid")
       ELSE \E best \in bestKinds(dir, numeric, gor[g].t.k) :
              gor' = [gor EXCEPT ![g].pc = "setSpecific", ![g].best = best,
                                 ![g].impl = numeric[best]]
  /\ UNCHANGED <<raceRest, cache, specific, generic, basic, numeric, walks, crashed>>

\* x.loadBasic(numType, convFunc, false): x.loadSpecific(t, convFunc)
SetSpecific(g) ==
  /\ At(g, "setSpecific")
  /\ specific' = Store(specific, Simple(gor[g].t.k),
                       specificImpl(SubstFn(gor[g].best, gor[g].impl)))
  /\ Move(g, "setBasic")
  /\ UNCHANGED <<raceRest, cache, generic, basic, numeric, walks, crashed>>

\* x.loadBasic(numType, convFunc, false): x.basic[h] = fn
SetBasic(g) ==
  /\ At(g, "setBasic")
  /\ basic' = Store(basic, hash(baseOf(Simple(gor[g].t.k))),
                    basicImpl(Simple(gor[g].t.k), SubstFn(gor[g].best, gor[g].impl)))
  /\ Move(g, "getBasic")
  /\ UNCHANGED <<raceRest, cache, specific, generic, numeric, walks, crashed>>

\* basic := x.basic[h]
GetBasic(g) ==
  /\ At(g, "getBasic")
  /\ Chose(g, basic[hash(baseOf(gor[g].t))])
  /\ UNCHANGED <<raceRest, cache, specific, generic, basic, numeric, walks, crashed>>

\* x.basic[h] = convInvalid
SetInvalid(g) ==
  /\ At(g, "setInvalid")
  /\ basic' = Store(basic, hash(baseOf(gor[g].t)), convInvalid)
  /\ Chose(g, convInvalid)
  /\ UNCHANGED <<raceRest, cache, specific, generic, numeric, walks, crashed>>

\* x.cache[srcType] = ...
SetCache(g) ==
  /\ At(g, "setCache")
  /\ cache' = Store(cache, gor[g].t, gor[g].impl)
  /\ Move(g, "run")
  /\ UNCHANGED <<raceRest, specific, generic, basic, numeric, walks, crashed>>

\* return impl(args)
Return(g) ==
  /\ At(g, "run")
  /\ Move(g, "idle")
  /\ UNCHANGED <<raceRest, cache, specific, generic, basic, numeric, walks, crashed>>

\* The runtime detects the conflicting map access of g and stops the program.
Throw(g) ==
  /\ ~crashed
  /\ Races(g)
  /\ crashed' = TRUE
  /\ UNCHANGED <<raceRest, cache, specific, generic, basic, numeric, walks, gor>>

(***************************************************************************)
(* Conversion[T] and Inversion[T]: a Library whose zero is the function    *)
(* converterInvalid (inverterInvalid).  What Call and As return is a       *)
(* record of the value and the error, computed from the function f that    *)
(* Get returned; a function made by the builder returns a value of its own *)
(* and a nil error.                                                        *)
(***************************************************************************)
\* func converterInvalid[T any](v Value) (T, error)
converterInvalid == [o |-> "zero T", err |-> "ErrInvalid"]

\* func inverterInvalid[T any](v T) (Value, error)
inverterInvalid == [o |-> "Value{}", err |-> "ErrInvalid"]

\* f(ValueOf(v)) in Call, f(v) in As
apply(f, invalid) == IF f = zero THEN invalid ELSE [o |-> <<"out", f>>, err |-> "nil"]

\* func (x *Conversion[T]) Call(v any) (T, error), after f := Get(TypeOf(v))
Call(f) == apply(f, converterInvalid)

\* func As[S any, T any](x *Inversion[T], v T) (S, error), after f := Get(t)
As(f) ==
  IF apply(f, inverterInvalid).err # "nil"
    THEN [o |-> "zero S", err |-> apply(f, inverterInvalid).err]
    ELSE apply(f, inverterInvalid)

(***************************************************************************)
(* Check(t, fn).  The functions fn used are "t.Kind() != k" for the kinds   *)
(* of CheckKinds; checked is the last call: its arguments, its result and   *)
(* the types fn was called with, in order.                                  *)
(***************************************************************************)
CheckKinds == {K.Int64, K.Uint8, K.Bool, K.Slice}

\* fn(t)
fnHolds(k, t) == t.k # k

RECURSIVE fnEach(_, _, _)
\* The loops of Check: fn is called with ts[i], ts[i+1], ... until it returns
\* false.
fnEach(k, ts, i) ==
  IF i > Len(ts) THEN [ok |-> TRUE, calls |-> <<>>]
  ELSE IF ~fnHolds(k, ts[i]) THEN [ok |-> FALSE, calls |-> <<ts[i]>>]
  ELSE [fnEach(k, ts, i + 1) EXCEPT !.calls = <<ts[i]>> \o @]

\* func Check(t Type, fn func(Type) bool) bool
Check(t, k) ==
  IF ~fnHolds(k, t) THEN [ok |-> FALSE, calls |-> <<t>>]
  ELSE IF t.k \in {K.Array, K.Chan, K.Pointer, K.Slice}
    THEN [ok |-> fnHolds(k, t.sub[1]), calls |-> <<t, t.sub[1]>>]
  ELSE IF t.k = K.Map
    THEN IF ~fnHolds(k, t.sub[1])
           THEN [ok |-> FALSE, calls |-> <<t, t.sub[1]>>]
           ELSE [ok |-> fnHolds(k, t.sub[2]), calls |-> <<t, t.sub[1], t.sub[2]>>]
  ELSE IF t.k \in {K.Struct, K.Func}
    THEN [fnEach(k, t.sub, 1) EXCEPT !.calls = <<t>> \o @]
  ELSE [ok |-> TRUE, calls |-> <<t>>]

InitCheck == checked = [t |-> NilType, k |-> K.Invalid, ok |-> TRUE, calls |-> <<>>]

ParkCheck == InitCheck

\* Check(t, fn) is called.
CheckCall ==
  /\ \E t \in SampleTypes, k \in CheckKinds :
       checked' = [t |-> t, k |-> k, ok |-> Check(t, k).ok, calls |-> Check(t, k).calls]
  /\ UNCHANGED <<notScheme, scheme, bound, sLast>>

(***************************************************************************)
(* Scheme[T]: a list of Builders, and a Conversion or Inversion made from   *)
(* its Build method.                                                        *)
(*   scheme  the Scheme: the builders in the order Use added them;          *)
(*   bound   the Conversion or Inversion made by NewConversion(scheme.Build)*)
(*           or NewInversion(scheme.Build): the method value keeps the      *)
(*           Scheme's value at that moment; m is the Library's map;         *)
(*   sLast   the last call: the builders it invoked, in order, and what it  *)
(*           returned.                                                      *)
(***************************************************************************)
\* Largest number of builders added with Use.
MaxBuilders == 2

\* The builders: "b" and "b2" handle the types of kind int, "bb" the slices
\* of int.
Builders == {"b", "b2", "bb"}

accepts(b, t) ==
  IF b = "bb" THEN t.k = K.Slice /\ t.sub[1].k = K.Int ELSE t.k = K.Int

\* type someInt int
someInt == Defined("someInt", intT)

\* The types Build, Call and As are used with.
BuildTypes == {intT, someInt, SliceOf(intT), stringT}

\* b(t): the function the builder returns (nil, here zero, with false).
builderOf(b, t) == IF accepts(b, t) THEN [o |-> <<b, t>>, ok |-> TRUE] ELSE [o |-> zero, ok |-> FALSE]

RECURSIVE buildFrom(_, _, _)
\* The loop of Scheme[T].Build from builder i on, with the builders it
\* invokes.
buildFrom(x, t, i) ==
  IF i > Len(x) THEN [o |-> zero, ok |-> FALSE, invoked |-> <<>>]
  ELSE IF builderOf(x[i], t).ok
    THEN [o |-> builderOf(x[i], t).o, ok |-> TRUE, invoked |-> <<x[i]>>]
  ELSE [buildFrom(x, t, i + 1) EXCEPT !.invoked = <<x[i]>> \o @]

RECURSIVE buildLast(_, _, _)
\* A loop that keeps the last builder that reports true instead of the first.
buildLast(x, t, i) ==
  IF i > Len(x) THEN [o |-> zero, ok |-> FALSE, invoked |-> <<>>]
  ELSE IF buildLast(x, t, i + 1).ok
    THEN [buildLast(x, t, i + 1) EXCEPT !.invoked = <<x[i]>> \o @]
  ELSE [o |-> builderOf(x[i], t).o, ok |-> builderOf(x[i], t).ok, invoked |-> <<x[i]>>]

SchemeBuildLast(x, t) == buildLast(x, t, 1)

\* func (x Scheme[T]) Build(t Type) (T, bool)
SchemeBuild(x, t) == buildFrom(x, t, 1)

NoBound == [made |-> "", b |-> <<>>, m |-> <<>>]

Did2(op, t, r, out) ==
  [op |-> op, t |-> t, o |-> r.o, ok |-> r.ok, invoked |-> r.invoked, out |-> out]

NoBuild == [o |-> zero, ok |-> FALSE, invoked |-> <<>>]

NoOut == [o |-> "", err |-> "nil"]

InitScheme ==
  /\ scheme = <<>>
  /\ bound = NoBound
  /\ sLast = Did2("", NilType, NoBuild, NoOut)

ParkScheme == InitScheme /\ InitCheck

\* func (x *Scheme[T]) Use(b Builder[T])
Use ==
  /\ Len(scheme) < MaxBuilders
  /\ \E b \in Builders : scheme' = Append(scheme, b)
  /\ sLast' = Did2("Use", NilType, NoBuild, NoOut)
  /\ UNCHANGED <<notScheme, bound, checked>>

\* scheme.Build(t), called directly
BuildType ==
  /\ \E t \in BuildTypes : sLast' = Did2("Build", t, SchemeBuild(scheme, t), NoOut)
  /\ UNCHANGED <<notScheme, scheme, bound, checked>>

\* c := NewConversion(scheme.Build) or c := NewInversion(scheme.Build)
NewBound ==
  /\ bound.made = ""
  /\ \E made \in {"conversion", "inversion"} :
       bound' = [made |-> made, b |-> scheme, m |-> <<>>]
  /\ sLast' = Did2("New", NilType, NoBuild, NoOut)
  /\ UNCHANGED <<notScheme, scheme, checked>>

\* Library.Get(t) made by one goroutine: the map afterwards and the builder
\* call it made, if any.
getOnce(lib, t) ==
  IF t \in DOMAIN lib.m THEN [m |-> lib.m, f |-> lib.m[t], r |-> NoBuild]
  ELSE [m |-> Store(lib.m, t, built(SchemeBuild(lib.b, t))),
        f |-> built(SchemeBuild(lib.b, t)),
        r |-> SchemeBuild(lib.b, t)]

\* The end of c.Call(v) and As[S](c, v): g is what Get did.
Answered(t, g) ==
  /\ bound' = [bound EXCEPT !.m = g.m]
  /\ sLast' = IF bound.made = "conversion"
                THEN Did2("Call", t, [g.r EXCEPT !.o = g.f], Call(g.f))
                ELSE Did2("As", t, [g.r EXCEPT !.o = g.f], As(g.f))

\* c.Call(v) with a v of dynamic type t, or As[S](c, v) with S = t
CallOrAs ==
  /\ bound.made # ""
  /\ \E t \in BuildTypes : Answered(t, getOnce(bound, t))
  /\ UNCHANGED <<notScheme, scheme, checked>>

(***************************************************************************)
(* base.hash: goroutines hash bases with the package's one maphash.Hash,   *)
(* guarded by hashMux.                                                     *)
(*   hasher    the shared maphash.Hash: its seed (0 until the first use     *)
(*             chooses one at random) and the bytes written since the last  *)
(*             Reset;                                                       *)
(*   hashMux   0 if free, else the goroutine holding it;                    *)
(*   hashPc, hashArg, hashOut   per goroutine: its position in hash, the    *)
(*             base it hashes, the digest it computed;                      *)
(*   hashSeen  the digest first returned for each base;                     *)
(*   hashCalls the number of calls started.                                 *)
(***************************************************************************)
\* Largest number of hash calls.
MaxHashCalls == 4

\* The seeds the runtime can choose.
Seeds == {1, 2}

\* The bases hashed: of int, of []int and of [2]int.
HashBases == {<<Byte(K.Int64)>>, <<Byte(K.Slice), Byte(K.Int64)>>,
              <<Byte(K.Array), 2, Byte(K.Int64)>>}

\* hash.Sum64(): a function of the seed and of the bytes written.
Sum64(h) == <<"maphash", h.seed, h.buf>>

\* The counterpart of Reset that keeps the bytes.
ResetKeeps(h) == h

\* hash.Reset() discards all bytes added; the seed stays.
Reset(h) == [h EXCEPT !.buf = <<>>]

NoDigest == <<"maphash", 0, <<>>>>

InitHash ==
  /\ hasher = [seed |-> 0, buf |-> <<>>]
  /\ hashMux = 0
  /\ hashPc = [g \in Goroutines |-> "idle"]
  /\ hashArg = [g \in Goroutines |-> <<>>]
  /\ hashOut = [g \in Goroutines |-> NoDigest]
  /\ hashSeen = <<>>
  /\ hashCalls = 0

ParkHash ==
  /\ hasher = [seed |-> 0, buf |-> <<>>]
  /\ hashMux = 0
  /\ hashPc = [g \in Goroutines |-> "off"]
  /\ hashArg = [g \in Goroutines |-> <<>>]
  /\ hashOut = [g \in Goroutines |-> NoDigest]
  /\ hashSeen = <<>>
  /\ hashCalls = 0

\* g calls x.hash().
HashCall(g) ==
  /\ hashPc[g] = "idle"
  /\ hashCalls < MaxHashCalls
  /\ \E x \in HashBases : hashArg' = [hashArg EXCEPT ![g] = x]
  /\ hashPc' = [hashPc EXCEPT ![g] = "lock"]
  /\ hashCalls' = hashCalls + 1
  /\ UNCHANGED <<notHash, hasher, hashMux, hashOut, hashSeen>>

\* hashMux.Lock()
HashLock(g) ==
  /\ hashPc[g] = "lock"
  /\ hashMux = 0
  /\ hashMux' = g
  /\ hashPc' = [hashPc EXCEPT ![g] = "write"]
  /\ UNCHANGED <<notHash, hasher, hashArg, hashOut, hashSeen, hashCalls>>

\* hash.Write([]byte(x)); the first use of the Hash chooses its seed.
HashWrite(g) ==
  /\ hashPc[g] = "write"
  /\ \E s \in Seeds :
       hasher' = [seed |-> IF hasher.seed = 0 THEN s ELSE hasher.seed,
                  buf |-> hasher.buf \o hashArg[g]]
  /\ hashPc' = [hashPc EXCEPT ![g] = "sum"]
  /\ UNCHANGED <<notHash, hashMux, hashArg, hashOut, hashSeen, hashCalls>>

\* o := hash.Sum64()
HashSum(g) ==
  /\ hashPc[g] = "sum"
  /\ hashOut' = [hashOut EXCEPT ![g] = Sum64(hasher)]
  /\ hashPc' = [hashPc EXCEPT ![g] = "reset"]
  /\ UNCHANGED <<notHash, hasher, hashMux, hashArg, hashSeen, hashCalls>>

\* hash.Reset()
HashReset(g) ==
  /\ hashPc[g] = "reset"
  /\ hasher' = Reset(hasher)
  /\ hashPc' = [hashPc EXCEPT ![g] = "return"]
  /\ UNCHANGED <<notHash, hashMux, hashArg, hashOut, hashSeen, hashCalls>>

\* return o, and the deferred hashMux.Unlock()
HashReturn(g) ==
  /\ hashPc[g] = "return"
  /\ hashMux' = 0
  /\ hashSeen' = IF hashArg[g] \in DOMAIN hashSeen THEN hashSeen
                 ELSE Store(hashSeen, hashArg[g], hashOut[g])
  /\ hashPc' = [hashPc EXCEPT ![g] = "idle"]
  /\ UNCHANGED <<notHash, hasher, hashArg, hashOut, hashCalls>>

(***************************************************************************)
(* isConcrete applied to the Bases of types with and without interfaces,   *)
(* among them types one of whose counts equals the tag of the interface    *)
(* kind.                                                                   *)
(***************************************************************************)
\* n times the type t.
Repeat(t, n) == [i \in 1..n |-> t]

ShapeLeaves == LeafTypes \cup {emptyType}

ShapeTypes ==
  ShapeLeaves
  \cup Composites(ShapeLeaves, ParamTypes \cup {emptyType})
  \cup Composites(MidTypes \cup {SliceOf(emptyType), StructOf(<<emptyType>>)},
                  {SliceOf(Simple(K.Uint8))})
  \cup {StructOf(Repeat(Simple(K.Bool), K.Interface)),
        StructOf(Append(Repeat(Simple(K.Bool), K.Interface - 1), emptyType)),
        FuncOf(Repeat(int64T, K.Interface), <<>>, FALSE),
        FuncOf(<<>>, Repeat(int64T, K.Interface), FALSE),
        FuncOf(Repeat(int64T, K.Interface), <<emptyType>>, FALSE),
        FuncOf(<<SliceOf(emptyType)>>, Repeat(int64T, K.Interface), TRUE)}

InitShape ==
  /\ bsType \in ShapeTypes
  /\ bsTail = <<>>
  /\ bsBase = <<>>
  /\ bsDec = Dec(NilType, 0)
  /\ bsRe = <<>>
  /\ bsPc = "start"

\* b.isConcrete(), b the base computed for the type
IsConcrete ==
  /\ bsPc = "encoded"
  /\ bsPc' = IF isConcrete(bsBase) THEN "concrete" ELSE "dynamic"
  /\ UNCHANGED <<notBase, bsType, bsTail, bsBase, bsDec, bsRe>>

(***************************************************************************)
(* The function built by the Kind-keyed Scheme, called with a source for   *)
(* which the Scheme has neither a specific nor a basic function: the       *)
(* direct conversion.  dst is the pointer given to the function, src the   *)
(* source value, as for Convert.                                           *)
(***************************************************************************)
\* The end of the function made by Build, after the two lookups.
directOld(dst, src) ==
  IF dst.kind \in NumericKinds /\ src.kind \in NumericKinds
    THEN IF RateConversion(dst.kind, src.kind) > -1
           THEN Convert(dst, src)
           ELSE Outcome("invalid conversion", FALSE, dst.val)
  ELSE IF CanConvert(Simple(src.kind), Simple(dst.kind))
    THEN Outcome("", FALSE, NumVal(dst.kind, src.val.re, src.val.im))
  ELSE Outcome("invalid conversion", FALSE, dst.val)

\* err := f(dst, src), f made by Build, for a source without a function
DirectCall ==
  /\ cvPc = "start"
  /\ cvDst.tag = "ptr" /\ cvSrc.tag = "value"
  /\ cvOut' = directOld(cvDst, cvSrc)
  /\ cvPc' = "direct"
  /\ UNCHANGED <<notNum, cvDst, cvSrc, cvBack>>

(***************************************************************************)
(* Specifications.                                                         *)
(***************************************************************************)
NumInit == InitNum /\ ParkScheme /\ ParkHash /\ ParkOld /\ ParkBase /\ ParkLib /\ ParkEng /\ ParkRace

NextNum == ConvertCall \/ ConvertBack

SpecNum == NumInit /\ [][NextNum]_vars

BaseInit == InitBase /\ ParkScheme /\ ParkHash /\ ParkOld /\ ParkNum /\ ParkLib /\ ParkEng /\ ParkRace

NextBase == Encode \/ Decode \/ Reencode

SpecBase == BaseInit /\ [][NextBase]_vars

LibInit == InitLib /\ ParkScheme /\ ParkHash /\ ParkOld /\ ParkNum /\ ParkBase /\ ParkEng /\ ParkRace

NextLib ==
  \E g \in Goroutines :
    \/ \E t \in LibTypes : GetCall(g, t)
    \/ GetRLock(g)
    \/ GetRead(g)
    \/ GetLock(g)
    \/ GetLocked(g)
    \/ GetRecheck(g)
    \/ GetBuild(g)
    \/ GetStore(g)
    \/ GetUnlock(g)

SpecLib == LibInit /\ [][NextLib]_vars

\* The steps of Get that goroutine g takes once it has called it.  The
\* scheduler runs every goroutine that can run, and a goroutine waits only
\* in RLock and Lock.
GetStep(g) ==
  \/ GetRLock(g)
  \/ GetRead(g)
  \/ GetLock(g)
  \/ GetLocked(g)
  \/ GetRecheck(g)
  \/ GetBuild(g)
  \/ GetStore(g)
  \/ GetUnlock(g)

SpecLibFair == SpecLib /\ \A g \in Goroutines : SF_vars(GetStep(g))

EngInit == InitEng /\ ParkScheme /\ ParkHash /\ ParkOld /\ ParkNum /\ ParkBase /\ ParkLib /\ ParkRace

NextEng == Load \/ Build \/ Dispatch

SpecEng == EngInit /\ [][NextEng]_vars

OldInit == InitOld /\ ParkScheme /\ ParkHash /\ ParkNum /\ ParkBase /\ ParkLib /\ ParkEng /\ ParkRace

NextOld == OldLoad \/ Recursion \/ OldBuild \/ OldCall

SpecOld == OldInit /\ [][NextOld]_vars

SchemeInit ==
  InitScheme /\ InitCheck /\ ParkHash /\ ParkNum /\ ParkBase /\ ParkLib /\ ParkEng /\ ParkRace /\ ParkOld

NextScheme == Use \/ BuildType \/ NewBound \/ CallOrAs

SpecScheme == SchemeInit /\ [][NextScheme]_vars

\* Check alone, called with every sample type.
NextCheck == CheckCall

SpecCheck == SchemeInit /\ [][NextCheck]_vars

\* A Scheme or Inverse whose rules are rules for Nil.
NextNil == LoadNil \/ Build \/ Dispatch

SpecNil == EngInit /\ [][NextNil]_vars

\* A Scheme or Inverse whose rules are rules for int8 and float64.
NextBridge == LoadNumeric \/ Build \/ Dispatch

SpecBridge == EngInit /\ [][NextBridge]_vars

HashInit ==
  InitHash /\ ParkScheme /\ ParkNum /\ ParkBase /\ ParkLib /\ ParkEng /\ ParkRace /\ ParkOld

HashStep(g) ==
  HashCall(g) \/ HashLock(g) \/ HashWrite(g) \/ HashSum(g) \/ HashReset(g) \/ HashReturn(g)

NextHash == \E g \in Goroutines : HashStep(g)

SpecHash == HashInit /\ [][NextHash]_vars

ShapeInit ==
  InitShape /\ ParkScheme /\ ParkHash /\ ParkNum /\ ParkLib /\ ParkEng /\ ParkRace /\ ParkOld

NextShape == Encode \/ IsConcrete

SpecShape == ShapeInit /\ [][NextShape]_vars

\* The direct conversion of the Kind-keyed Scheme's function alone.
NextDirect == DirectCall

SpecDirect == NumInit /\ [][NextDirect]_vars

\* Numeric rules loaded before Build, and rules loaded after it.
NextLate == LoadNumeric \/ Build \/ Dispatch \/ LoadLate

SpecLate == EngInit /\ [][NextLate]_vars

\* Load alone, called with arguments of every shape.
NextArg == LoadAny

SpecArg == EngInit /\ [][NextArg]_vars

RaceInit == InitRace /\ ParkScheme /\ ParkHash /\ ParkOld /\ ParkNum /\ ParkBase /\ ParkLib

NextRace ==
  \E g \in Goroutines :
    \/ \E t \in RaceTypes : Enter(g, t)
    \/ ReadCache(g)
    \/ ReadSpecific(g)
    \/ ReadGeneric(g)
    \/ ReadBasic(g)
    \/ ScanNumeric(g)
    \/ SetSpecific(g)
    \/ SetBasic(g)
    \/ GetBasic(g)
    \/ SetInvalid(g)
    \/ SetCache(g)
    \/ Return(g)
    \/ Throw(g)

SpecRace == RaceInit /\ [][NextRace]_vars

(***************************************************************************)
(* Properties.                                                             *)
(***************************************************************************)

\* C1: however the goroutines that call Get for a type interleave, the
\* builder is invoked at most once for it, and every Get that has returned
\* returned the value stored in the map by that one invocation.
C1_BuiltOnce ==
  /\ \A t \in LibTypes : calls[t] <= 1
  /\ \A g \in Goroutines :
       libPc[g] = "done" =>
         /\ calls[libArg[g]] = 1
         /\ libArg[g] \in DOMAIN m
         /\ libRet[g] = m[libArg[g]]
         /\ libRet[g] = (IF builder(libArg[g], 1).ok
                           THEN builder(libArg[g], 1).o ELSE zero)

\* Two goroutines both missed the same type on the optimistic read, both
\* went through Lock, and both have returned.
C1_Witness ==
  \E g1, g2 \in Goroutines :
    /\ g1 # g2
    /\ libPc[g1] = "done" /\ libPc[g2] = "done"
    /\ libArg[g1] = libArg[g2]
    /\ libSlow[g1] /\ libSlow[g2]

\* C2: while goroutines call the built function concurrently, no goroutine
\* is about to write cache, specific or basic while another is about to read
\* or write the same map, the program is not stopped by the runtime, and the
\* registries are searched at most once for each counter-type.
C2_ConcurrentDispatchIsSafe ==
  /\ \A g \in Goroutines : ~Races(g)
  /\ ~crashed
  /\ \A t \in RaceTypes : walks[t] <= 1

(***************************************************************************)
(* What the functions given to Load, and the fixed type, say about a       *)
(* counter-type, read from the sequence of Load calls rather than from the *)
(* maps.                                                                   *)
(***************************************************************************)
LastOf(S) == IF S = {} THEN -1 ELSE CHOOSE i \in S : \A j \in S : j <= i

\* The Load calls whose function has counter-type t itself.
ExactLoads(t) == {i \in 1..Len(loads) : loads[i] = t /\ markerKind(t) = K.Invalid}

\* The Load calls of a generic function for the family of t.
GenericLoads(t) == {i \in 1..Len(loads) : markerKind(loads[i]) = genericKind(t.k)}

\* The Load calls of a function for an unnamed type with Base b.
BasicLoads(b) == {i \in 1..Len(loads) : isBasic(loads[i]) /\ baseOf(loads[i]) = b}

\* Build has made the implicit function: the fixed type's Base is concrete
\* and no function was loaded for it.
HasImplicit ==
  phase = "built" /\ isConcrete(baseOf(fixedType)) /\ BasicLoads(baseOf(fixedType)) = {}

\* The unnamed type of the fixed type's Base.
ImplicitType == asType(baseOf(fixedType)).t

\* The function registered for exactly t: a loaded one, the implicit one (0)
\* or none (-1).
RuleSpecific(t) ==
  IF ExactLoads(t) # {} THEN LastOf(ExactLoads(t))
  ELSE IF HasImplicit /\ t = ImplicitType THEN 0 ELSE -1

RuleGeneric(t) == LastOf(GenericLoads(t))

RuleBasic(t) ==
  IF BasicLoads(baseOf(t)) # {} THEN LastOf(BasicLoads(baseOf(t)))
  ELSE IF HasImplicit /\ baseOf(t) = baseOf(fixedType) THEN 0 ELSE -1

\* The numeric kinds with a loaded or implicit function.
OriginalKinds ==
  {loads[i].k : i \in {j \in 1..Len(loads) : isBasic(loads[j]) /\ loads[j].k \in NumericKinds}}
    \cup (IF HasImplicit /\ ImplicitType.k \in NumericKinds THEN {ImplicitType.k} ELSE {})

\* The kinds whose function can stand in for counter-type t.
SubstituteKinds(t) ==
  IF t.k \in NumericKinds THEN {kk \in OriginalKinds : substRate(dir, kk, t.k) >= 0} ELSE {}

\* The function registered for numeric kind kk.
RuleNumeric(kk) ==
  IF BasicLoads(baseOf(Simple(kk))) # {} /\ \E i \in 1..Len(loads) : loads[i] = Simple(kk)
    THEN LastOf({i \in 1..Len(loads) : loads[i] = Simple(kk)})
    ELSE 0

HasStep(op) == \E i \in 1..Len(last.path) : last.path[i].op = op

\* The last call was made with a value (not a nil interface).
Dispatched == last.n > 0 /\ last.t # NilType

\* C3: when a function is loaded for type t itself and a generic function is
\* loaded for t's family, every call with a t invokes the function loaded for
\* t, and never goes through the generic one.
C3_SpecificBeatsGeneric ==
  (Dispatched /\ ExactLoads(last.t) # {} /\ GenericLoads(last.t) # {})
  => /\ ~last.panic
     /\ last.rule = LastOf(ExactLoads(last.t))
     /\ ~HasStep("generic")

\* A second call with an A, with functions loaded for A and for Struct,
\* answered from the cache by the function loaded for A.
C3_Witness ==
  /\ last.n >= 2 /\ last.t = structA /\ last.how = "cache"
  /\ ExactLoads(structA) # {} /\ GenericLoads(structA) # {}
  /\ last.rule = LastOf(ExactLoads(structA))

NoRuleApplies(t) ==
  /\ RuleSpecific(t) < 0 /\ RuleGeneric(t) < 0 /\ RuleBasic(t) < 0
  /\ SubstituteKinds(t) = {}

\* Some function applies to counter-type t and can be called.
Convertible(t) ==
  \/ RuleSpecific(t) >= 0 \/ RuleGeneric(t) >= 0 \/ RuleBasic(t) >= 0
  \/ dir = "scheme" /\ SubstituteKinds(t) # {}

\* C5: a call with a counter-type to which no function applies returns
\* ErrInvalid without panicking and without calling any function, the first
\* time and every later time; and once such a call has been made, a call
\* with a counter-type that has a function still calls one.
C5_InvalidIsReported ==
  /\ (Dispatched /\ NoRuleApplies(last.t))
       => /\ last.err = "ErrInvalid" /\ ~last.panic
          /\ last.rule = -1 /\ last.path = <<>>
  /\ (Dispatched /\ Convertible(last.t)
        /\ \E u \in DOMAIN cache : cache[u] = convInvalid)
       => last.rule >= 0 /\ ~last.panic /\ last.err # "ErrInvalid"

\* A string was refused, then another type was converted, then the string
\* was refused again from the cache.
C5_Witness ==
  /\ last.n = 3 /\ last.t = stringT /\ last.how = "cache" /\ last.err = "ErrInvalid"
  /\ NoRuleApplies(stringT)
  /\ \E u \in DOMAIN cache : cache[u] # convInvalid

\* C6: the substitute for a numeric counter-kind has a non-negative rating,
\* no registered kind has a lower non-negative one, and it is determined by
\* the set of registered kinds: no other registered kind has the same rating.
C6_DeterministicSubstitute ==
  (Dispatched /\ last.how = "substitute")
  => /\ last.pick \in DOMAIN numeric
     /\ substRate(dir, last.pick, last.t.k) >= 0
     /\ \A kk \in DOMAIN numeric \ {last.pick} :
          \/ substRate(dir, kk, last.t.k) < 0
          \/ substRate(dir, kk, last.t.k) > substRate(dir, last.pick, last.t.k)

\* The case of C7: a Scheme, a numeric counter-type t without a function for
\* t, its family or its Base, and no registered numeric kind that converts
\* to it.
NoSubstitute(t) ==
  /\ dir = "scheme" /\ t.k \in NumericKinds
  /\ RuleSpecific(t) < 0 /\ RuleGeneric(t) < 0 /\ RuleBasic(t) < 0
  /\ \A kk \in OriginalKinds : RateConversion(kk, t.k) = -1

\* C7: in that case the call returns ErrInvalid and calls no function,
\* afterwards the invalid marker is in basic under the hash of t's Base and
\* in the cache under t, and a call made when the marker is already in basic
\* is answered from basic or the cache, without a scan of numeric.
C7_InvalidSubstituteIsRemembered ==
  [][(last'.n = last.n + 1 /\ last'.t # NilType /\ NoSubstitute(last'.t))
       => /\ last'.err = "ErrInvalid" /\ last'.rule = -1 /\ ~last'.panic
          /\ hash(baseOf(last'.t)) \in DOMAIN basic'
          /\ basic'[hash(baseOf(last'.t))] = convInvalid
          /\ last'.t \in DOMAIN cache' /\ cache'[last'.t] = convInvalid
          /\ (hash(baseOf(last'.t)) \in DOMAIN basic => last'.how \in {"basic", "cache"})
          /\ (hash(baseOf(last'.t)) \notin DOMAIN basic => last'.how = "numeric-invalid")
    ]_vars

\* With some numeric function registered, a uint64 was refused after a scan,
\* and a U (type U uint64) is then refused from basic.
C7_Witness ==
  /\ dir = "scheme" /\ last.t = namedU /\ last.how = "basic" /\ last.err = "ErrInvalid"
  /\ NoSubstitute(namedU) /\ OriginalKinds # {}
  /\ uint64T \in DOMAIN cache

\* C8: for a Scheme whose fixed type has a concrete Base for which no
\* function was loaded, Build succeeds and registers the implicit function
\* under that Base, and a call with a value of a named type with that Base
\* (without a function of its own or of its family) is converted by
\* reinterpretation alone.
C8_ImplicitRule ==
  (/\ dir = "scheme" /\ phase # "open"
   /\ isConcrete(baseOf(fixedType)) /\ BasicLoads(baseOf(fixedType)) = {})
  => /\ phase = "built"
     /\ hash(baseOf(fixedType)) \in DOMAIN basic
     /\ basic[hash(baseOf(fixedType))].fn.tag = "implicit"
     /\ (/\ Dispatched /\ baseOf(last.t) = baseOf(fixedType) /\ last.t.nm # ""
         /\ ExactLoads(last.t) = {} /\ GenericLoads(last.t) = {})
        => /\ last.rule = 0 /\ ~last.panic /\ last.err = "nil"
           /\ \A i \in 1..Len(last.path) : last.path[i].op = "convBasic"

\* C9: for every base b that baseOf produces, asTypeRec succeeds, reports
\* len(b) consumed bytes (also when more bytes follow b), and the type it
\* returns has base b again.
C9_AsTypeInvertsBaseOf ==
  bsPc \in {"decoded", "reencoded", "panic"} =>
    /\ bsPc # "panic"
    /\ bsDec.t # NilType
    /\ bsDec.c = Len(bsBase)
    /\ (bsPc = "reencoded" => bsRe = bsBase)

\* C10: when RateConversion(dst, src) >= 0, Convert stores the source's
\* value unchanged in the destination, and converting the result back (when
\* the reverse rating is >= 0 too) gives the original value.
C10_LosslessRoundTrip ==
  (/\ cvPc \in {"converted", "back"}
   /\ cvDst.tag = "ptr" /\ cvSrc.tag = "value"
   /\ cvDst.kind \in NumericKinds /\ cvSrc.kind \in NumericKinds
   /\ RateConversion(cvDst.kind, cvSrc.kind) >= 0)
  => /\ ~cvOut.panic /\ cvOut.err = ""
     /\ cvOut.val = NumVal(cvDst.kind, cvSrc.val.re, cvSrc.val.im)
     /\ (cvPc = "back" /\ RateConversion(cvSrc.kind, cvDst.kind) >= 0
           => ~cvBack.panic /\ cvBack.err = "" /\ cvBack.val = cvSrc.val)

\* C11: a call of the built function never removes or replaces a cache
\* entry, and a call with a counter-type that is in the cache invokes the
\* same function, through the same conversions and with the same outcome
\* (ErrInvalid or not, panic or not), as the first call with that type did.
C11_CacheIsStable ==
  [][/\ \A t \in DOMAIN cache : t \in DOMAIN cache' /\ cache'[t] = cache[t]
     /\ (last'.n = last.n + 1 /\ last'.t \in DOMAIN cache)
          => /\ last'.how = "cache"
             /\ last'.t \in DOMAIN seen
             /\ Did(last', last'.err) = seen[last'.t]]_vars

\* Reached: the third call is answered from the cache with a function given
\* to Load, after a call with another type has filled a second entry.
C11_Witness ==
  /\ last.n = 3 /\ last.how = "cache" /\ last.rule > 0
  /\ Cardinality(DOMAIN cache) >= 2

\* C12: for the type the builder does not handle, the map holds the zero
\* value once Get has stored it, the builder is invoked once however many Get
\* calls are made, every Get that has returned returned the zero value, and
\* Call and As on it return ErrInvalid (As with the zero value of S).
C12_NotFoundIsCachedAsZero ==
  /\ calls["tU"] <= 1
  /\ "tU" \in DOMAIN m => m["tU"] = zero /\ calls["tU"] = 1
  /\ \A g \in Goroutines :
       (libPc[g] = "done" /\ libArg[g] = "tU")
         => /\ libRet[g] = zero
            /\ "tU" \in DOMAIN m
            /\ Call(libRet[g]) = [o |-> "zero T", err |-> "ErrInvalid"]
            /\ As(libRet[g]) = [o |-> "zero S", err |-> "ErrInvalid"]

\* Reached: a Get for the unhandled type that was answered from the map on
\* the read-locked path, after an earlier Get had stored the zero value.
C12_Witness ==
  \E g \in Goroutines :
    /\ libPc[g] = "done" /\ libArg[g] = "tU" /\ ~libSlow[g]
    /\ calls["tU"] = 1

\* C13: while a goroutine is inside the builder for one type, a goroutine
\* that has called Get for another type is not made to wait: its RLock can
\* return.
C13_OtherKeyDoesNotWait ==
  \A g1, g2 \in Goroutines :
    (/\ libPc[g1] = "build" /\ libPc[g2] = "rlock"
     /\ libStack[g1] = <<>> /\ libStack[g2] = <<>>
     /\ libArg[g1] # libArg[g2])
    => mux.writer = 0

\* C14: every Get that a goroutine has called returns.
C14_GetReturns ==
  \A g \in Goroutines :
    (libPc[g] = "rlock" /\ libStack[g] = <<>>) ~> (libPc[g] = "done")

WellFormed(d, fixed, fn) ==
  /\ fn.shape \in {"func", "funcptr"}
  /\ Len(fn.in) = 2 /\ fn.out = <<errorType>>
  /\ IF d = "scheme" THEN fn.in[1] = PtrTo(fixed)
     ELSE fn.in[1].k = K.Pointer /\ fn.in[2] = fixed

\* C16: Load returns an error and leaves the five maps (and the list of
\* loaded functions) as they were when its argument is nil, not a function,
\* or a function that does not have the expected signature; and it returns
\* an error in no other case.
C16_MalformedLoadIsRejected ==
  [][\A fn \in BadFns(dir, fixedType) \cup {GoodFn(dir, fixedType, t) : t \in LoadTypes} :
       LoadFn(fn, eval(makeFuncEval(dir, fixedType), fn))
         => IF WellFormed(dir, fixedType, fn)
              THEN loadErr' = "nil" /\ loads' # loads
              ELSE /\ loadErr' # "nil"
                   /\ UNCHANGED <<cache, specific, generic, basic, numeric, loads>>]_vars

\* Reached: after two functions were loaded, a Load with a function whose
\* first parameter has the wrong type has returned an error.
C16_Witness ==
  /\ Len(loads) = 2 /\ basic # <<>> /\ specific # <<>>
  /\ loadErr = "expected input #i to be t"

\* The argument is a pointer to a function variable of type
\* func(*dstType, interface{}) error.
IsDispatchRef(a) ==
  /\ a.shape = "funcptr"
  /\ VarType(a.var).in = <<PtrTo(kDstType), emptyType>>
  /\ VarType(a.var).out = <<errorType>>

\* C17: Recursion returns an error for every argument that is not a pointer
\* to a function variable of type func(*dstType, interface{}) error, and
\* stores nothing then; Build never panics assigning to the variable
\* Recursion was given.
C17_RecursionRejectsMalformed ==
  /\ (kLast.op = "Recursion" /\ ~IsDispatchRef(kLast.arg)) => kLast.err # "nil"
  /\ rec # "" => IsDispatchRef(Ref("funcptr", rec))
  /\ kLast.op = "Build" => ~kLast.panic

\* C18: a Build that returns nil after Recursion(&r) leaves the function it
\* made in its target variable and in r; a call through r is then answered
\* from the Scheme's maps, by the function loaded for the value's type if
\* there is one and else by the one registered for its kind; a Build that
\* returns an error assigns no function variable.
C18_RecursionSharesDispatcher ==
  [][(kLast'.n = kLast.n + 1 /\ ~kLast'.panic) =>
       /\ (kLast'.op = "Build" /\ kLast'.err # "nil") => fvars' = fvars
       /\ (kLast'.op = "Build" /\ kLast'.err = "nil" /\ rec = "r")
            => /\ fvars'[kLast'.arg.var] = kLast'.n
               /\ fvars'["r"] = fvars'[kLast'.arg.var]
       /\ (kLast'.op = "Call" /\ kLast'.arg.var = "r")
            => /\ fvars["r"] > 0
               /\ kLast'.t \in DOMAIN kSpecific
                    => kLast'.how = "specific" /\ kLast'.rule = kSpecific[kLast'.t].id
               /\ (kLast'.t \notin DOMAIN kSpecific /\ kLast'.t.k \in DOMAIN kBasic)
                    => kLast'.how = "basic" /\ kLast'.rule = kBasic[kLast'.t.k].id]_vars

\* Reached: Recursion(&r), Build(&f) returned nil, and a call through r was
\* answered by a function given to Load.
C18_Witness ==
  /\ rec = "r" /\ fvars["f"] > 0 /\ fvars["r"] = fvars["f"]
  /\ kLast.op = "Call" /\ kLast.arg.var = "r" /\ kLast.rule > 0

\* The function given to the i-th Load call.
Loaded(i) == UserFn(i, loads[i])

\* Implementation impl calls the function given to the i-th Load call.
Keeps(impl, i) == impl # convInvalid /\ impl.fn = Loaded(i)

\* C19: when functions for int and for its fixed-width alias int64 have been
\* loaded, in either order, a call with an int or an int64 invokes the one
\* loaded later, and no entry of specific, basic or numeric still holds the
\* one loaded earlier.
C19_LaterAliasWins ==
  \A i, j \in 1..Len(loads) :
    (i < j /\ {loads[i], loads[j]} = {intT, int64T}) =>
      /\ (phase = "built" /\ Dispatched /\ last.t \in {intT, int64T}) => last.rule = j
      /\ \A t \in DOMAIN specific : ~Keeps(specific[t], i)
      /\ \A h \in DOMAIN basic : ~Keeps(basic[h], i)
      /\ \A k \in DOMAIN numeric : ~Keeps(numeric[k], i)

\* C20: every entry numeric[k] is the implementation stored in basic under
\* the hash of the Base of kind k's type.
C20_NumericMirrorsBasic ==
  \A k \in DOMAIN numeric :
    /\ hash(baseOf(Simple(k))) \in DOMAIN basic
    /\ basic[hash(baseOf(Simple(k)))] = numeric[k]

\* The Load calls of a key that a later Load call of the same key replaced.
Earlier(S) == S \ {LastOf(S)}

\* C21: when several functions were loaded for the same key (the type of
\* the value itself, the generic family of its kind, or its Base), a call
\* that is not answered from the cache never invokes one loaded earlier than
\* the last of that key.
C21_LaterLoadReplaces ==
  (Dispatched /\ last.how # "cache") =>
    /\ last.rule \notin Earlier(ExactLoads(last.t))
    /\ last.rule \notin Earlier(GenericLoads(last.t))
    /\ last.rule \notin Earlier(BasicLoads(baseOf(last.t)))

\* The positions of the first builder of x that reports true for t.
FirstAccepting(x, t) ==
  {i \in 1..Len(x) : accepts(x[i], t) /\ \A j \in 1..(i - 1) : ~accepts(x[j], t)}

\* C22: Build invokes the builders in the order Use added them, up to and
\* including the first that reports true, and returns what that one returned,
\* or (zero, false) after invoking all of them when none reports true; Call
\* (by the dynamic type of v) and As (by the destination type S) return the
\* result of the function the first accepting builder made for that type.
C22_FirstBuilderWins ==
  /\ sLast.op = "Build" =>
       IF FirstAccepting(scheme, sLast.t) = {}
         THEN sLast.invoked = scheme /\ ~sLast.ok /\ sLast.o[1] = "zero"
         ELSE \E i \in FirstAccepting(scheme, sLast.t) :
                /\ sLast.invoked = SubSeq(scheme, 1, i)
                /\ sLast.ok
                /\ sLast.o[1] = scheme[i]
                /\ sLast.o[2] = sLast.t
  /\ sLast.op \in {"Call", "As"} =>
       IF FirstAccepting(bound.b, sLast.t) = {}
         THEN sLast.out.err = "ErrInvalid"
         ELSE \E i \in FirstAccepting(bound.b, sLast.t) :
                /\ sLast.out.err = "nil"
                /\ sLast.out.o[2][1] = bound.b[i]
                /\ sLast.out.o[2][2] = sLast.t
                /\ bound.m[sLast.t][1] = bound.b[i]

\* C22 witness: a Conversion made from two builders that both handle someInt
\* was called with a someInt, and its build stopped at the first builder.
C22_Witness ==
  /\ sLast.op = "Call" /\ sLast.t = someInt /\ sLast.out.err = "nil"
  /\ bound.b = <<"b2", "b">>
  /\ sLast.invoked = <<"b2">>

RECURSIVE Nested(_)
\* The types nested inside t at any depth: elements, map keys, struct fields,
\* function parameters and results, and what is nested inside those.
Nested(t) ==
  {t.sub[i] : i \in 1..Len(t.sub)} \cup UNION {Nested(t.sub[i]) : i \in 1..Len(t.sub)}

\* C23: Check(t, fn) returns true if and only if fn is true of t and of every
\* type nested inside t at any depth, and fn is not called again after it
\* returned false.
C23_CheckIsDeep ==
  checked.calls # <<>> =>
    /\ checked.ok <=> \A u \in {checked.t} \cup Nested(checked.t) : fnHolds(checked.k, u)
    /\ \A i \in 1..(Len(checked.calls) - 1) : fnHolds(checked.k, checked.calls[i])

\* A Scheme whose only numeric rule is a basic rule loaded for kind kk.
OnlyNumericRule(kk) ==
  /\ dir = "scheme"
  /\ DOMAIN numeric = {kk}
  /\ \E i \in 1..Len(loads) : loads[i] = Simple(kk)
  /\ reflectNumeric \notin DOMAIN generic

\* The step is a call of the built function with a source of type t.
DispatchOf(t) == last'.n = last.n + 1 /\ last'.t = t

\* The rule stored for t is a bridging rule to kind kk.
IsBridge(impl, t, kk) ==
  /\ impl.tag = "basic" /\ impl.t = Simple(t.k)
  /\ impl.fn.tag = "subst" /\ impl.fn.k = kk

\* The call converted the source to kind kk with numeric.Convert and then
\* applied the rule loaded for kk.
RanBridge(c, t, kk, id) ==
  /\ ~c.panic
  /\ c.rule = id
  /\ c.path = <<Step("convBasic", Simple(t.k)), Step("convNumeric", Simple(kk)),
                Step("convBasic", Simple(kk))>>

\* What the first call with a source of type t does when it bridges to kk.
FirstBridges(t, kk) ==
  /\ last'.how = "substitute"
  /\ RanBridge(last', t, kk, numeric[kk].fn.id)
  /\ hash(baseOf(t)) \in DOMAIN basic' /\ IsBridge(basic'[hash(baseOf(t))], t, kk)
  /\ t \in DOMAIN cache' /\ cache'[t] = basic'[hash(baseOf(t))]

\* What a later call with a source of type t does.
LaterUsesCache(t, kk) ==
  /\ last'.how = "cache"
  /\ RanBridge(last', t, kk, numeric[kk].fn.id)
  /\ UNCHANGED <<cache, specific, generic, basic, numeric>>

\* The types of another numeric kind than kk that kind kk can hold.
Bridgeable(kk) ==
  {t \in DispatchTypes : t.k \in NumericKinds /\ t.k # kk /\ RateConversion(kk, t.k) >= 0}

\* C24 as stated: with a basic rule loaded for only one numeric kind kk, the
\* first call with a source of another numeric kind that kk can hold makes a
\* bridging rule, stores it in basic and in the cache, converts the source
\* with numeric.Convert and applies kk's rule; every later call with that
\* type uses the cached rule and leaves the registries alone.
C24_BridgeForEveryKind ==
  [][\A kk \in NumericKinds : \A t \in Bridgeable(kk) :
       (OnlyNumericRule(kk) /\ DispatchOf(t)) =>
         IF t \in DOMAIN cache THEN LaterUsesCache(t, kk) ELSE FirstBridges(t, kk)]_vars

\* C24, amended: the same for the kinds whose Base differs from the Base of
\* kk; a source with the Base of kk (int for int64) is given to kk's rule by
\* the basic lookup, and no bridging rule is made.
C24_BridgeForOtherBase ==
  [][\A kk \in NumericKinds : \A t \in Bridgeable(kk) :
       (OnlyNumericRule(kk) /\ DispatchOf(t) /\ baseOf(t) # baseOf(Simple(kk))) =>
         IF t \in DOMAIN cache THEN LaterUsesCache(t, kk) ELSE FirstBridges(t, kk)]_vars

\* C24 witness: an int8 was converted twice through the rule loaded for
\* float64, the second time from the cache.
C24_Witness ==
  /\ dir = "scheme" /\ DOMAIN numeric = {K.Float64} /\ loads = <<float64T>>
  /\ last.n >= 2 /\ last.t = int8T /\ last.how = "cache"
  /\ HasStep("convNumeric") /\ last.rule = 1 /\ ~last.panic
  /\ int8T \in DOMAIN cache /\ IsBridge(cache[int8T], int8T, K.Float64)

\* C25: when a rule with source type Nil is loaded into a Scheme, a call of
\* the built function with a nil source does not panic and invokes that rule.
C25_NilRuleHandlesNil ==
  (dir = "scheme" /\ nilMarker \in DOMAIN specific /\ last.n > 0 /\ last.t = NilType) =>
    /\ ~last.panic
    /\ last.rule = LastOf(ExactLoads(nilMarker))

\* Convert was called with a pointer to a numeric kind and a numeric value,
\* so that it looked the pair up with RateConversion.
Rated ==
  /\ cvPc \in {"converted", "back"}
  /\ cvDst.tag = "ptr" /\ cvSrc.tag = "value"
  /\ cvDst.kind \in NumericKinds /\ cvSrc.kind \in NumericKinds

\* The size a destination counts with: half for a complex destination
\* against the sources whose nature is below "below".
CountedSize(d, s, below) ==
  IF d.Nature = Nature.Complex /\ s.Nature < below THEN d.Size \div 2 ELSE d.Size

\* The pairs described as not convertible, a complex destination counting
\* half against the sources of a nature below "below".
TooSmall(d, s, below) ==
  \/ d.Nature < s.Nature
  \/ (d.Nature = s.Nature /\ d.Size < s.Size)
  \/ (d.Nature > s.Nature /\ CountedSize(d, s, below) <= s.Size)

\* C26 as stated: the rating is -1 exactly for the pairs that are too small,
\* a complex destination counting half against integer and float sources,
\* and >= 0 for every other pair.
C26_RatingHalvesForFloats ==
  Rated =>
    IF TooSmall(Descriptors[cvDst.kind], Descriptors[cvSrc.kind], Nature.Complex)
      THEN RateConversion(cvDst.kind, cvSrc.kind) = -1
      ELSE RateConversion(cvDst.kind, cvSrc.kind) >= 0

\* C26, amended: the same, a complex destination counting half against
\* integer sources only, and whole against float sources.
C26_RatingHalvesForIntegers ==
  Rated =>
    IF TooSmall(Descriptors[cvDst.kind], Descriptors[cvSrc.kind], Nature.Float)
      THEN RateConversion(cvDst.kind, cvSrc.kind) = -1
      ELSE RateConversion(cvDst.kind, cvSrc.kind) >= 0

\* C26 witness: a float32 was converted into a complex64, whose half size is
\* not greater than the size of a float32.
C26_Witness ==
  /\ Rated /\ cvDst.kind = K.Complex64 /\ cvSrc.kind = K.Float32
  /\ RateConversion(K.Complex64, K.Float32) >= 0
  /\ cvOut.err = "" /\ ~cvOut.panic

\* The destination kinds that can hold source kind s.
Viable(s) == {d \in NumericKinds : RateConversion(d, s) >= 0}

\* C27: for the source kind s of a rated call and every two destination kinds
\* d and d2 that can hold it: among the kinds of s's nature the smaller is
\* rated lower; a kind of s's nature is rated lower than any kind of a higher
\* nature; and of two kinds of different higher natures the one of the lower
\* nature (int before float before complex) is rated lower.
C27_RatingOrder ==
  Rated =>
    \A d \in Viable(cvSrc.kind) : \A d2 \in Viable(cvSrc.kind) :
      LET s  == Descriptors[cvSrc.kind]
          n  == Descriptors[d].Nature
          n2 == Descriptors[d2].Nature
      IN /\ (n = s.Nature /\ n2 = s.Nature /\ Descriptors[d].Size < Descriptors[d2].Size)
              => RateConversion(d, cvSrc.kind) < RateConversion(d2, cvSrc.kind)
         /\ (n = s.Nature /\ n2 > s.Nature)
              => RateConversion(d, cvSrc.kind) < RateConversion(d2, cvSrc.kind)
         /\ (n > s.Nature /\ n2 > n)
              => RateConversion(d, cvSrc.kind) < RateConversion(d2, cvSrc.kind)

\* C28: in a call rated >= 0, Convert changes the source through float before
\* the final conversion only if the destination is complex and the source is
\* not, it returns nil without panicking, and *dst holds the source's value.
C28_PromoteOnlyForRealSources ==
  (Rated /\ RateConversion(cvDst.kind, cvSrc.kind) >= 0) =>
    /\ promote(cvDst.kind, cvSrc.val) # [ok |-> TRUE, v |-> cvSrc.val]
         => IsComplex(cvDst.kind) /\ ~IsComplex(cvSrc.kind)
    /\ ~cvOut.panic
    /\ cvOut.err = ""
    /\ cvOut.val = NumVal(cvDst.kind, cvSrc.val.re, cvSrc.val.im)

\* C29: when the implementation chosen for the type of the last call ends
\* with a function given to Load (as a specific, generic or basic rule, or as
\* the substitute of a bridging rule), the call invoked that function and
\* returned exactly the error that function returned.
C29_RuleErrorIsReturned ==
  (Dispatched /\ last.t \in DOMAIN cache /\ selected(cache[last.t]) > 0) =>
    /\ ~last.panic
    /\ last.rule = selected(cache[last.t])
    /\ last.err = last.ret

\* The counts baseOf writes for t: an array's length, a struct's number of
\* fields, a function's numbers of parameters and results.
CountsOf(t) ==
  IF t.k = K.Array THEN <<t.n>>
  ELSE IF t.k = K.Struct THEN <<Len(t.sub)>>
  ELSE <<t.n, Len(t.sub) - t.n>>

\* The types of the parts of t.
PartsOf(t) == {t.sub[i] : i \in 1..Len(t.sub)}

\* t and u are arrays of the same element type, structs whose fields all
\* have one type, or functions whose parameters and results all have one
\* type, and differ in a count.
DifferOnlyInCount(t, u) ==
  /\ t.k = u.k /\ t.k \in {K.Array, K.Struct, K.Func}
  /\ t.nm = u.nm /\ t.v = u.v
  /\ Cardinality(PartsOf(t) \cup PartsOf(u)) <= 1
  /\ CountsOf(t) # CountsOf(u)

\* C30: the Base computed for a type differs from the Base of every type
\* that differs from it only in an array length, a number of fields or a
\* number of parameters or results.
C30_CountsAreNotTruncated ==
  bsPc \in {"encoded", "decoded", "reencoded", "panic"} =>
    \A u \in SampleTypes : DifferOnlyInCount(bsType, u) => baseOf(u) # bsBase

\* C31: the shared hasher holds no bytes whenever hashMux is free, the digest
\* a call computed is the digest of its own base alone, and every call
\* returns for a base the digest first returned for that base.
C31_HashIsStable ==
  /\ hashMux = 0 => hasher.buf = <<>>
  /\ \A g \in Goroutines :
       hashPc[g] \in {"reset", "return"} =>
         /\ hashOut[g] = Sum64([seed |-> hasher.seed, buf |-> hashArg[g]])
         /\ hashArg[g] \in DOMAIN hashSeen => hashOut[g] = hashSeen[hashArg[g]]

\* C31 witness: one goroutine waits for hashMux while the other is about to
\* return a digest for a base whose digest was returned before.
C31_Witness ==
  /\ hashPc[1] = "return" /\ hashPc[2] = "lock"
  /\ hashArg[1] \in DOMAIN hashSeen /\ hashArg[2] # hashArg[1]
  /\ Cardinality(DOMAIN hashSeen) >= 2

RECURSIVE HasInterface(_)
\* An interface kind occurs in t's shape.
HasInterface(t) ==
  t.k = K.Interface \/ \E i \in 1..Len(t.sub) : HasInterface(t.sub[i])

\* C32: isConcrete is true of the Base of a type exactly when no interface
\* kind occurs in the type, whatever the lengths, counts, flags and
\* directions written in the Base.
C32_ConcreteIffNoInterface ==
  /\ bsPc = "concrete" => ~HasInterface(bsType)
  /\ bsPc = "dynamic" => HasInterface(bsType)

\* C32 witness: the Base of a type without interfaces that holds the tag of
\* the interface kind as a count was found concrete.
C32_Witness ==
  /\ bsPc = "concrete"
  /\ bsType.k \in {K.Array, K.Struct, K.Func}
  /\ \E i \in 2..Len(bsBase) : bsBase[i] = K.Interface

\* The arguments of the Convert call are ones it refuses: a nil argument, a
\* destination that is no pointer or points to no numeric kind, a source of
\* no numeric kind, or a pair rated -1.
Refused ==
  \/ cvDst.tag = "nil" \/ cvSrc.tag = "nil"
  \/ cvDst.tag # "ptr"
  \/ cvDst.kind \notin NumericKinds
  \/ cvSrc.kind \notin NumericKinds
  \/ RateConversion(cvDst.kind, cvSrc.kind) = -1

\* C33: a Convert call with refused arguments returns an error, does not
\* panic, and leaves what dst points to as it was.
C33_RefusedLeavesDst ==
  (cvPc = "converted" /\ Refused) =>
    /\ cvOut.err # ""
    /\ ~cvOut.panic
    /\ cvOut.val = cvDst.val

\* C33 witness: an int64 was refused for an int8 destination holding 1.
C33_Witness ==
  /\ cvPc = "converted"
  /\ cvDst.tag = "ptr" /\ cvDst.kind = K.Int8 /\ cvDst.val = NumVal(K.Int8, One, Zero)
  /\ cvSrc.tag = "value" /\ cvSrc.kind = K.Int64
  /\ cvOut.err = "invalid conversion" /\ cvOut.val = cvDst.val

\* C34: when the direct conversion is reached with a numeric destination and
\* a numeric source, the value is converted if the pair is rated above -1,
\* and otherwise the function returns the error "invalid conversion" and
\* leaves the destination as it was.
C34_DirectNumericFollowsRating ==
  (cvPc = "direct" /\ cvDst.kind \in NumericKinds /\ cvSrc.kind \in NumericKinds) =>
    IF RateConversion(cvDst.kind, cvSrc.kind) > -1
      THEN /\ ~cvOut.panic /\ cvOut.err = ""
           /\ cvOut.val = NumVal(cvDst.kind, cvSrc.val.re, cvSrc.val.im)
      ELSE /\ ~cvOut.panic /\ cvOut.err = "invalid conversion"
           /\ cvOut.val = cvDst.val

\* C35: in the Inverse direction, a call whose destination type was given a
\* bridging rule (no specific, generic or basic rule for it, a numeric rule
\* of a kind that can be converted to it) completes: it invokes the rule of
\* the chosen kind, which is one of the registered kinds of minimal rating,
\* and returns that rule's error.
C35_InverseBridgeCompletes ==
  (/\ dir = "inverse" /\ Dispatched /\ last.t \in DOMAIN cache
   /\ cache[last.t].tag = "basic" /\ cache[last.t].fn.tag = "subst") =>
    /\ cache[last.t].fn.k \in bestKinds(dir, numeric, last.t.k)
    /\ ~last.panic
    /\ last.rule = selected(cache[last.t])
    /\ last.err = last.ret

\* Kind d can hold the values of kind s: the pair is rated 0 or more.
Holds(d, s) == RateConversion(d, s) >= 0

\* C36: for the kinds a and b of a rated call and every numeric kind c:
\* a kind is rated 0 against itself; a and b hold each other only if they
\* have the same size and nature, and then both rates are 0; and if b holds
\* a and c holds b then c holds a.
C36_RatingIsPreorder ==
  Rated =>
    LET a == cvSrc.kind
        b == cvDst.kind
    IN /\ RateConversion(a, a) = 0 /\ RateConversion(b, b) = 0
       /\ (Holds(a, b) /\ Holds(b, a)) =>
            /\ Descriptors[a] = Descriptors[b]
            /\ RateConversion(a, b) = 0 /\ RateConversion(b, a) = 0
       /\ \A c \in NumericKinds : (Holds(b, a) /\ Holds(c, b)) => Holds(c, a)

\* C36 witness: a rated call whose destination holds the source and is held
\* by a third kind.
C36_Witness ==
  /\ Rated
  /\ cvDst.kind # cvSrc.kind /\ Holds(cvDst.kind, cvSrc.kind)
  /\ \E c \in NumericKinds \ {cvDst.kind, cvSrc.kind} : Holds(c, cvDst.kind)

RECURSIVE Shape(_)
\* The shape of t: its tree of kinds (int and uint as their fixed-width
\* kinds), lengths, channel directions, numbers of parameters and variadic
\* flags, with the parts in order and without the names of defined types.
Shape(t) ==
  [k |-> IF t.k = K.Int THEN kindInt ELSE IF t.k = K.Uint THEN kindUint ELSE t.k,
   n |-> t.n, v |-> t.v,
   sub |-> [i \in 1..Len(t.sub) |-> Shape(t.sub[i])]]

RECURSIVE Below256(_)
\* Every array length, number of fields and number of parameters or results
\* in t is below 256.
Below256(t) ==
  /\ t.k = K.Array => t.n < 256
  /\ t.k = K.Struct => Len(t.sub) < 256
  /\ t.k = K.Func => (t.n < 256 /\ Len(t.sub) - t.n < 256)
  /\ \A i \in 1..Len(t.sub) : Below256(t.sub[i])

\* x is a proper prefix of y.
ProperPrefix(x, y) == Len(x) < Len(y) /\ SubSeq(y, 1, Len(x)) = x

\* C37: among the types whose counts are all below 256, the Base computed
\* for a type equals the Base of exactly the types of the same shape, and is
\* neither a proper prefix of the Base of another type nor has one as a
\* proper prefix.
C37_BaseIsInjectiveOnShapes ==
  (bsPc \in {"encoded", "decoded", "reencoded", "panic"} /\ Below256(bsType)) =>
    \A u \in {v \in SampleTypes : Below256(v)} :
      /\ (baseOf(u) = bsBase) <=> (Shape(u) = Shape(bsType))
      /\ ~ProperPrefix(bsBase, baseOf(u))
      /\ ~ProperPrefix(baseOf(u), bsBase)

\* C37 witness: the Base of a struct type with fields was computed, another
\* sample type has the same Base, and a third has the same kind and number
\* of fields but another Base.
C37_Witness ==
  /\ bsPc = "encoded" /\ bsType.k = K.Struct /\ Len(bsType.sub) = 2
  /\ \E u \in SampleTypes : u # bsType /\ baseOf(u) = bsBase
  /\ \E u \in SampleTypes :
       u.k = K.Struct /\ Len(u.sub) = 2 /\ u.sub[1] = bsType.sub[1] /\ baseOf(u) # bsBase

\* The number of the last function loaded with counter-type t (0: none).
LastLoaded(t) ==
  IF \E i \in 1..Len(loads) : loads[i] = t
    THEN CHOOSE i \in 1..Len(loads) : loads[i] = t /\ \A j \in (i + 1)..Len(loads) : loads[j] # t
    ELSE 0

\* C38: a Load after Build leaves the cache alone; a call with a type that
\* is not cached and for which a function was loaded, before or after
\* Build, invokes the last function loaded for that type; and a call with a
\* type that was dispatched before does what the first call with that type
\* did, whatever was loaded since.
C38_LateLoadReachesUncachedOnly ==
  [][/\ (phase = "built" /\ loads' # loads) => cache' = cache
     /\ \A t \in DispatchTypes \ {NilType} :
          DispatchOf(t) =>
            /\ (t \notin DOMAIN cache /\ LastLoaded(t) > 0) =>
                 (~last'.panic /\ last'.rule = LastLoaded(t))
            /\ t \in DOMAIN cache =>
                 /\ last'.how = "cache"
                 /\ t \in DOMAIN seen
                 /\ last'.rule = seen[t].rule /\ last'.panic = seen[t].panic
                 /\ (last'.err = "ErrInvalid") = seen[t].invalid]_vars

\* C38 witness: a call with an int found no rule and cached the invalid
\* marker; a function for int64, which has the same Base, was loaded after
\* that; a call with an int64 invoked it; and the last call, with an int
\* again, took the invalid marker from the cache.
C38_Witness ==
  /\ phase = "built" /\ Len(loads) = 2 /\ loads[2] = int64T
  /\ intT \in DOMAIN cache /\ cache[intT] = convInvalid
  /\ int64T \in DOMAIN cache /\ selected(cache[int64T]) = 2
  /\ hash(baseOf(intT)) \in DOMAIN basic /\ selected(basic[hash(baseOf(intT))]) = 2
  /\ last.t = intT /\ last.how = "cache" /\ last.err = "ErrInvalid"

\* Implementation impl is a bridging rule, or the invalid marker.
Synthesized(impl) == impl.tag = "invalid" \/ impl.fn.tag = "subst"

\* Every implementation held by map impls is a rule given to Load or made by
\* fill, or a bridging rule that calls such a rule.
OneStep(impls) ==
  \A key \in DOMAIN impls :
    (impls[key].tag # "invalid" /\ impls[key].fn.tag = "subst") =>
      (impls[key].fn.best.tag # "invalid" /\ impls[key].fn.best.fn.tag \in {"user", "implicit"})

\* C39: a call of the built function leaves the generic and numeric maps as
\* they are; the numeric map never holds a bridging rule or the invalid
\* marker; and every bridging rule in specific, basic or the cache calls a
\* rule given to Load or made by fill.
C39_DispatchKeepsGenericAndNumeric ==
  [][/\ last'.n = last.n + 1 => (generic' = generic /\ numeric' = numeric)
     /\ \A kk \in DOMAIN numeric' : ~Synthesized(numeric'[kk])
     /\ \A key \in DOMAIN generic' : ~Synthesized(generic'[key])
     /\ OneStep(specific') /\ OneStep(basic') /\ OneStep(cache')]_vars

\* C39 witness: the last call made a bridging rule for int8 to the rule
\* loaded for float64, and the rule is in specific, basic and the cache but
\* not in numeric.
C39_Witness ==
  /\ dir = "scheme" /\ last.how = "substitute" /\ last.t = int8T
  /\ int8T \in DOMAIN cache /\ cache[int8T].fn.tag = "subst"
  /\ cache[int8T].fn.k = K.Float64
  /\ int8T \in DOMAIN specific /\ specific[int8T].fn.tag = "subst"
  /\ basic[hash(baseOf(int8T))] = cache[int8T]
  /\ K.Int8 \notin DOMAIN numeric

=============================================================================
